---- MODULE Spec2Model ----
(***************************************************************************)
(* Session persistence-and-recovery engine (EnhancedSessionManager).       *)
(*                                                                         *)
(* Conventions of the model:                                               *)
(*   - a JavaScript string is a sequence of one-character strings; the     *)
(*     empty sequence is the empty / missing string (both are falsy);      *)
(*   - a number field that is missing is 0 (undefined and 0 are both       *)
(*     falsy, and every test the code makes on such a field is `!x`);      *)
(*   - instants are milliseconds, as Date.now() returns them;              *)
(*   - the optional checksum of a SessionData is not modelled: it is       *)
(*     never read back by any operation.                                   *)
(***************************************************************************)
EXTENDS Integers, Sequences, FiniteSets, TLC

VARIABLES
    now,          \* the wall clock, Date.now()
    config,       \* this.config
    sessionDir,   \* files of config.sessionDir: session id -> lines of <id>.jsonl
    backupDir,    \* files of config.backupDir: file name -> content
    pc,           \* position of the running resumeSession / "idle"
    rid,          \* sessionId argument of the running resumeSession
    cur,          \* sessionData of the running resumeSession
    origErr,      \* error caught by resumeSession's catch branch ("" = none)
    queue,        \* backupFiles of attemptSessionRecovery
    result,       \* what the last public operation returned or threw
    readLog,      \* backup files read (fs.readFile) by the running resume
    refreshCalls, \* calls of refreshOAuthToken made by the running resume
    authLog,      \* what ensureValidAuthentication saw, in the running resume
    repairLog,    \* the last validateAndRepairSession pass: its input and instant
    atCall,       \* the store as it was when the running resume was called
    snapLog,      \* the backup names written, oldest first
    ioFailed,     \* whether any file operation has failed so far
    calls,        \* public operations called so far
    writes,       \* the fs.writeFile calls of saveSession that are in flight
    failedRequests, \* MemoryMonitor.failedRequests: request id -> entry
    responseCache,  \* MemoryMonitor.responseCache: entries in insertion order
    retryCounters,  \* MemoryMonitor.retryCounters: request id -> count
    trackLog,     \* the calls of trackFailedRequest so far: id and value returned
    made,         \* which of config.sessionDir and config.backupDir exist
    retryAttempts, \* DirectoryOperationHandler.retryAttempts
    attempt,      \* `attempt` of the running processDirectoryListing
    executions,   \* executeDirectoryOperation calls of the running / last call
    dirCall,      \* the running processDirectoryListing: its position and arguments
    dirResult     \* what the last processDirectoryListing returned

\* the state of the MemoryMonitor
monitorVars == <<failedRequests, responseCache, retryCounters, trackLog>>

\* the state of the DirectoryOperationHandler
dirVars == <<retryAttempts, attempt, executions, dirCall, dirResult>>

vars == <<now, config, sessionDir, backupDir, pc, rid, cur, origErr, queue,
          result, readLog, refreshCalls, authLog, repairLog, atCall, snapLog,
          ioFailed, calls, writes, monitorVars, made, dirVars>>

(***************************************************************************)
(* Bounds of the model.                                                    *)
(***************************************************************************)
T0 == 10000000          \* the clock when the model starts
MaxTicks == 2           \* how many times the clock may advance by Tick
MaxCalls == 3           \* how many public operations are called
MaxMsgs == 2            \* messages of a session handed to the validator
SmallMaxBackups == 2    \* config.maxBackups of SpecStore (constructor override)
TsWidth == 8            \* characters of a timestamp in a file name

(***************************************************************************)
(* Program constants.                                                      *)
(***************************************************************************)
DefaultMaxBackups == 5
DefaultRefreshThreshold == 15
SyntheticStepMs == 1000
RefreshDelayMs == 1000
MsPerMinute == 60000
RefreshLifetimeMs == 3600000
DefaultRetryAttempts == 3

\* config.sessionDir and config.backupDir
AllDirs == {"sessionDir", "backupDir"}

(***************************************************************************)
(* Strings.  Array.prototype.sort() orders strings by code unit.           *)
(***************************************************************************)
Digits == <<"0", "1", "2", "3", "4", "5", "6", "7", "8", "9">>

CharCode(c) ==
    CASE c = "-" -> 45
      [] c = "." -> 46
      [] c = "0" -> 48 [] c = "1" -> 49 [] c = "2" -> 50 [] c = "3" -> 51
      [] c = "4" -> 52 [] c = "5" -> 53 [] c = "6" -> 54 [] c = "7" -> 55
      [] c = "8" -> 56 [] c = "9" -> 57
      [] c = "a" -> 97 [] c = "b" -> 98 [] c = "c" -> 99
      [] c = "j" -> 106 [] c = "n" -> 110 [] c = "o" -> 111 [] c = "s" -> 115

RECURSIVE LexLess(_, _)
LexLess(a, b) ==
    IF a = <<>> THEN b # <<>>
    ELSE IF b = <<>> THEN FALSE
    ELSE IF CharCode(Head(a)) # CharCode(Head(b))
         THEN CharCode(Head(a)) < CharCode(Head(b))
         ELSE LexLess(Tail(a), Tail(b))

StartsWith(s, p) == Len(s) >= Len(p) /\ SubSeq(s, 1, Len(p)) = p

EndsWith(s, p) == Len(s) >= Len(p) /\ SubSeq(s, Len(s) - Len(p) + 1, Len(s)) = p

RECURSIVE SortAsc(_)
SortAsc(S) ==
    IF S = {} THEN <<>>
    ELSE LET m == CHOOSE x \in S : \A y \in S \ {x} : LexLess(x, y)
         IN  <<m>> \o SortAsc(S \ {m})

Reverse(q) == [i \in 1..Len(q) |-> q[Len(q) + 1 - i]]

Range(q) == {q[i] : i \in 1..Len(q)}

\* new Date().toISOString().replace(/[:.]/g, '-'): a fixed-width, zero-padded,
\* most-significant-field-first rendering of the instant, so that the order of
\* the strings is the order of the instants.  Modelled by the zero-padded
\* decimal digits of the millisecond count.
RECURSIVE Pow10(_)
Pow10(n) == IF n = 0 THEN 1 ELSE 10 * Pow10(n - 1)

TsString(t) == [i \in 1..TsWidth |-> Digits[((t \div Pow10(TsWidth - i)) % 10) + 1]]

JsonSuffix == <<".", "j", "s", "o", "n">>

\* `${sessionId}-${timestamp}.json` in config.backupDir
BackupName(id, t) == id \o <<"-">> \o TsString(t) \o JsonSuffix

\* The session id a backup file was written for: its name without the
\* fixed-width "-<timestamp>.json" tail.
OwnerOf(name) == SubSeq(name, 1, Len(name) - (1 + TsWidth + Len(JsonSuffix)))

(***************************************************************************)
(* Session identifiers of the model.                                       *)
(***************************************************************************)
IdA == <<"a">>
IdB == <<"a", "-", "b">>
Ids == {IdA, IdB}

\* `session-${Date.now()}-${random}`: a fresh non-empty id
GenerateSessionId(t) == <<"s", "-">> \o TsString(t)

(***************************************************************************)
(* SessionData.                                                            *)
(***************************************************************************)
Metadata(sid, created, updated, total, active, expiry, version) ==
    [sessionId |-> sid, createdAt |-> created, lastUpdated |-> updated,
     totalMessages |-> total, isActive |-> active, oauthTokenExpiry |-> expiry,
     version |-> version]

Message(ts, content, sid) ==
    [timestamp |-> ts, type |-> "user", content |-> content, sessionId |-> sid]

GenerateDefaultMetadata(sessionId, messages, t) ==
    Metadata(sessionId,
             IF Len(messages) > 0 THEN messages[1].timestamp ELSE t,
             t, Len(messages), FALSE, 0, "1.0.0")

DefaultConfig ==
    [maxBackups |-> DefaultMaxBackups, enableAutoBackup |-> TRUE,
     oauthRefreshThreshold |-> DefaultRefreshThreshold]

(***************************************************************************)
(* Backup Manager.                                                         *)
(***************************************************************************)
\* readdir, filter, sort, reverse
GetSessionBackups(dir, sessionId) ==
    Reverse(SortAsc({f \in DOMAIN dir :
                        /\ StartsWith(f, sessionId \o <<"-">>)
                        /\ EndsWith(f, JsonSuffix)}))

WithFile(dir, name, content) ==
    [f \in DOMAIN dir \cup {name} |-> IF f = name THEN content ELSE dir[f]]

WithoutFiles(dir, names) == [f \in DOMAIN dir \ names |-> dir[f]]

\* readdirOk: whether fs.readdir succeeds (getSessionBackups returns [] when it
\* fails); unlinkFailAt: which fs.unlink call fails (0 = none), the catch of
\* cleanupOldBackups then ends the loop.
CleanupOldBackups(dir, sessionId, maxBackups, readdirOk, unlinkFailAt) ==
    LET backups  == IF readdirOk THEN GetSessionBackups(dir, sessionId) ELSE <<>>
        toDelete == IF Len(backups) > maxBackups
                    THEN SubSeq(backups, maxBackups + 1, Len(backups))
                    ELSE <<>>
        done     == IF unlinkFailAt = 0 \/ unlinkFailAt > Len(toDelete)
                    THEN Len(toDelete)
                    ELSE unlinkFailAt - 1
    IN  WithoutFiles(dir, {toDelete[i] : i \in 1..done})

BackupContent(sessionData) == [kind |-> "session", data |-> sessionData]

\* writeOk: whether fs.writeFile of the backup succeeds
CreateSessionBackup(dir, sessionData, t, maxBackups, writeOk, readdirOk, unlinkFailAt) ==
    IF ~writeOk THEN dir
    ELSE CleanupOldBackups(
             WithFile(dir, BackupName(sessionData.metadata.sessionId, t),
                      BackupContent(sessionData)),
             sessionData.metadata.sessionId, maxBackups, readdirOk, unlinkFailAt)

(***************************************************************************)
(* Durable Store.                                                          *)
(***************************************************************************)
MetadataLine(m) == [kind |-> "metadata", data |-> m]
MessageLine(m) == [kind |-> "message", data |-> m]
MalformedLine == [kind |-> "malformed", data |-> <<>>]

\* serializeSession as a bug would have it: the messages pushed last to first
SerializeSession_Reversed(sessionData) ==
    <<MetadataLine(sessionData.metadata)>> \o
    [i \in 1..Len(sessionData.messages) |->
        MessageLine(sessionData.messages[Len(sessionData.messages) + 1 - i])]

SerializeSession(sessionData) ==
    <<MetadataLine(sessionData.metadata)>> \o
    [i \in 1..Len(sessionData.messages) |-> MessageLine(sessionData.messages[i])]

NoSession == [metadata |-> Metadata(<<>>, 0, 0, 0, FALSE, 0, ""), messages |-> <<>>]

\* a loop that gives up at the first line JSON.parse rejects
RECURSIVE ParsedMessages_StopAtMalformed(_)
ParsedMessages_StopAtMalformed(lines) ==
    IF lines = <<>> THEN <<>>
    ELSE IF Head(lines).kind = "message"
         THEN <<Head(lines).data>> \o ParsedMessages_StopAtMalformed(Tail(lines))
         ELSE IF Head(lines).kind = "malformed" THEN <<>>
         ELSE ParsedMessages_StopAtMalformed(Tail(lines))

\* The lines of a record that JSON.parse accepts, as loadSession sorts them:
\* every metadata line replaces the metadata read so far, every other parsed
\* line is a message, a malformed line is skipped.
RECURSIVE ParsedMessages(_)
ParsedMessages(lines) ==
    IF lines = <<>> THEN <<>>
    ELSE IF Head(lines).kind = "message"
         THEN <<Head(lines).data>> \o ParsedMessages(Tail(lines))
         ELSE ParsedMessages(Tail(lines))

RECURSIVE ParsedMetadata(_)
ParsedMetadata(lines) ==
    IF lines = <<>> THEN <<>>
    ELSE IF lines[Len(lines)].kind = "metadata"
         THEN <<lines[Len(lines)].data>>
         ELSE ParsedMetadata(SubSeq(lines, 1, Len(lines) - 1))

\* readOk: whether fs.readFile of an existing record succeeds
LoadSession(dir, sessionId, t, readOk) ==
    IF sessionId \notin DOMAIN dir
    THEN [ok |-> FALSE, err |-> "Session file not found", session |-> NoSession]
    ELSE IF ~readOk
    THEN [ok |-> FALSE, err |-> "Failed to load session", session |-> NoSession]
    ELSE LET messages == ParsedMessages(dir[sessionId])
             found    == ParsedMetadata(dir[sessionId])
             metadata == IF found = <<>>
                         THEN GenerateDefaultMetadata(sessionId, messages, t)
                         ELSE found[1]
         IN  [ok |-> TRUE, err |-> "",
              session |-> [metadata |-> metadata, messages |-> messages]]

\* What fs.writeFile leaves of the record: the new content, the old content
\* (the write failed before touching the file), or the new content cut short
\* (the write failed or was interrupted part-way).
WriteOutcomes == {"ok", "untouched", "partial"}

Truncated(content) == SubSeq(content, 1, Len(content) - 1) \o <<MalformedLine>>

WriteFile(dir, sessionId, content, outcome) ==
    CASE outcome = "ok" -> WithFile(dir, sessionId, content)
      [] outcome = "untouched" -> dir
      [] outcome = "partial" -> WithFile(dir, sessionId, Truncated(content))

\* saveSession, the backup directory afterwards
SaveBackups(bdir, sessionData, t, cfg, writeOk, readdirOk, unlinkFailAt) ==
    IF cfg.enableAutoBackup
    THEN CreateSessionBackup(bdir, sessionData, t, cfg.maxBackups,
                             writeOk, readdirOk, unlinkFailAt)
    ELSE bdir

\* saveSession, the session as it is serialized (and left in the caller's object)
SavedSession(sessionData, t) == [sessionData EXCEPT !.metadata.lastUpdated = t]

\* saveSession, the session directory afterwards
SaveRecord(sdir, sessionData, t, outcome) ==
    WriteFile(sdir, sessionData.metadata.sessionId,
              SerializeSession(SavedSession(sessionData, t)), outcome)

(***************************************************************************)
(* Validator/Repairer: validateAndRepairSession, fix by fix.  `t` is       *)
(* Date.now() during the pass.                                             *)
(***************************************************************************)
Fix1SessionId(metadata, t) ==
    IF metadata.sessionId = <<>>
    THEN [metadata EXCEPT !.sessionId = GenerateSessionId(t)]
    ELSE metadata

\* Fix 2 as a bug would have it: only the first message is looked at
Fix2MessageIds_FirstOnly(messages, sessionId) ==
    [i \in 1..Len(messages) |->
        IF i = 1 /\ messages[i].sessionId = <<>>
        THEN [messages[i] EXCEPT !.sessionId = sessionId]
        ELSE messages[i]]

\* Fix 2 as a bug would have it: every message is given the session's id
Fix2MessageIds_Overwrite(messages, sessionId) ==
    [i \in 1..Len(messages) |-> [messages[i] EXCEPT !.sessionId = sessionId]]

Fix2MessageIds(messages, sessionId) ==
    [i \in 1..Len(messages) |->
        IF messages[i].sessionId = <<>>
        THEN [messages[i] EXCEPT !.sessionId = sessionId]
        ELSE messages[i]]

\* Fix 3 as a bug would have it: the last message is stamped with t itself
Fix3Timestamps_EndAtNow(messages, t) ==
    [i \in 1..Len(messages) |->
        IF messages[i].timestamp <= 0
        THEN [messages[i] EXCEPT
                 !.timestamp = t - (Len(messages) - i) * SyntheticStepMs]
        ELSE messages[i]]

\* Fix 3 as a bug would have it: every message is stamped anew on every pass
Fix3Timestamps_Restamp(messages, t) ==
    [i \in 1..Len(messages) |->
        [messages[i] EXCEPT
            !.timestamp = t - (Len(messages) - (i - 1)) * SyntheticStepMs]]

\* index of the code is i - 1
Fix3Timestamps(messages, t) ==
    [i \in 1..Len(messages) |->
        IF messages[i].timestamp <= 0
        THEN [messages[i] EXCEPT
                 !.timestamp = t - (Len(messages) - (i - 1)) * SyntheticStepMs]
        ELSE messages[i]]

Fix4Version(metadata) ==
    IF metadata.version = "" THEN [metadata EXCEPT !.version = "1.0.0"] ELSE metadata

Fix5Metadata(metadata, messages, t) ==
    [metadata EXCEPT !.totalMessages = Len(messages), !.lastUpdated = t]

\* the `repaired` flag
Repaired(sessionData) ==
    \/ sessionData.metadata.sessionId = <<>>
    \/ \E i \in 1..Len(sessionData.messages) : sessionData.messages[i].sessionId = <<>>
    \/ \E i \in 1..Len(sessionData.messages) : sessionData.messages[i].timestamp <= 0
    \/ sessionData.metadata.version = ""

\* the session returned
ValidateAndRepairSession(sessionData, t) ==
    LET m1   == Fix1SessionId(sessionData.metadata, t)
        msgs == Fix3Timestamps(Fix2MessageIds(sessionData.messages, m1.sessionId), t)
    IN  [metadata |-> Fix5Metadata(Fix4Version(m1), msgs, t), messages |-> msgs]

\* the backup directory after the pass
RepairBackups(bdir, sessionData, t, cfg, writeOk, readdirOk, unlinkFailAt) ==
    IF Repaired(sessionData) /\ cfg.enableAutoBackup
    THEN CreateSessionBackup(bdir, ValidateAndRepairSession(sessionData, t), t,
                             cfg.maxBackups, writeOk, readdirOk, unlinkFailAt)
    ELSE bdir

(***************************************************************************)
(* Credential Refresher.                                                   *)
(***************************************************************************)
\* the test as a bug would have it: no refresh at exactly the threshold
NeedsRefresh_Strict(oauthTokenExpiry, t, thresholdMinutes) ==
    /\ oauthTokenExpiry # 0
    /\ oauthTokenExpiry - t < thresholdMinutes * MsPerMinute

\* the test of ensureValidAuthentication: expiry known and within the threshold
NeedsRefresh(oauthTokenExpiry, t, thresholdMinutes) ==
    /\ oauthTokenExpiry # 0
    /\ oauthTokenExpiry - t <= thresholdMinutes * MsPerMinute

\* refreshOAuthToken called at t: it waits RefreshDelayMs, then returns an
\* expiry RefreshLifetimeMs after the instant it resumes at
RefreshOAuthToken(t) == (t + RefreshDelayMs) + RefreshLifetimeMs

(***************************************************************************)
(* State shared by the specifications.                                     *)
(***************************************************************************)
EmptyDir == [f \in {} |-> NoSession]

NoResult == [op |-> "none", kind |-> "none", session |-> NoSession,
             reason |-> "", via |-> "", file |-> <<>>, at |-> 0]

NoAuth == [checked |-> FALSE, on |-> "", expiry |-> 0, at |-> 0, threshold |-> 0]

NoRepair == [ran |-> FALSE, input |-> NoSession, at |-> 0]

NoCall == [sessionDir |-> EmptyDir, backupDir |-> EmptyDir]

\* the fields of the manager and the bookkeeping of its calls
ManagerFields ==
    /\ now = T0
    /\ pc = "idle"
    /\ rid = <<>>
    /\ cur = NoSession
    /\ origErr = ""
    /\ queue = <<>>
    /\ result = NoResult
    /\ readLog = <<>>
    /\ refreshCalls = 0
    /\ authLog = NoAuth
    /\ repairLog = NoRepair
    /\ atCall = NoCall
    /\ snapLog = <<>>
    /\ ioFailed = FALSE
    /\ calls = 0
    /\ writes = {}

\* the manager once the ensureDirectories() its constructor started has
\* created both directories
ManagerInit == ManagerFields /\ made = AllDirs

\* the MemoryMonitor just constructed: its Maps empty
MonitorInit ==
    /\ failedRequests = <<>>
    /\ responseCache = <<>>
    /\ retryCounters = <<>>
    /\ trackLog = <<>>

\* no processDirectoryListing is running / none has returned
NoDirCall == [pc |-> "idle", path |-> "", haiku |-> FALSE, peak |-> 0]

NoResponse == [kind |-> "none", assistant_message |-> "", content |-> "",
               files |-> <<>>, directories |-> <<>>, error |-> ""]

\* the DirectoryOperationHandler just constructed
HandlerInit ==
    /\ retryAttempts = DefaultRetryAttempts
    /\ attempt = 0
    /\ executions = 0
    /\ dirCall = NoDirCall
    /\ dirResult = NoResponse

IdleInit == ManagerInit /\ MonitorInit /\ HandlerInit

resumeVars == <<pc, rid, cur, origErr, queue, readLog, refreshCalls, authLog,
                repairLog, atCall>>

\* The clock advances by a millisecond between two steps.
Tick ==
    /\ now < T0 + MaxTicks
    /\ now' = now + 1
    /\ UNCHANGED <<config, sessionDir, backupDir, result, snapLog, ioFailed, calls>>
    /\ UNCHANGED resumeVars
    /\ UNCHANGED <<writes, monitorVars>>
    /\ UNCHANGED <<made, dirVars>>

\* what a snapshot of sessionData at t adds to the log of names written
Snapped(log, sessionData, t, taken) ==
    IF taken THEN Append(log, BackupName(sessionData.metadata.sessionId, t)) ELSE log

(***************************************************************************)
(* Faults of the file system, one operation call at a time: which of the   *)
(* call's file operations fails.  At most one fails per call.              *)
(***************************************************************************)
Fault(backupWriteOk, readdirOk, unlinkFailAt, outcome) ==
    [backupWriteOk |-> backupWriteOk, readdirOk |-> readdirOk,
     unlinkFailAt |-> unlinkFailAt, outcome |-> outcome]

NoFault == Fault(TRUE, TRUE, 0, "ok")

Faults ==
    {NoFault, Fault(FALSE, TRUE, 0, "ok"), Fault(TRUE, FALSE, 0, "ok"),
     Fault(TRUE, TRUE, 1, "ok"), Fault(TRUE, TRUE, 0, "untouched"),
     Fault(TRUE, TRUE, 0, "partial")}

(***************************************************************************)
(* SpecStore: saveSession called by the collaborators on an empty store.   *)
(***************************************************************************)
StoreMessages(id, n) == [i \in 1..n |-> Message(T0 - 4000 + i, Digits[i + 1], id)]

StoreSession(id, n, total) ==
    [metadata |-> Metadata(id, T0 - 5000, T0 - 4000, total, FALSE, 0, "1.0.0"),
     messages |-> StoreMessages(id, n)]

\* the sessions handed to saveSession: well formed, with a totalMessages that
\* is the length of the message list or, as in the integration test (5 for 2
\* messages), is not
SaveInputs == {StoreSession(IdA, 2, 2), StoreSession(IdA, 2, 5), StoreSession(IdB, 1, 1)}

\* saveSession as a bug would have it: a failure of the snapshot or of the
\* pruning reaches the catch of saveSession
SaveThrows_OnSnapshotFailure(f) ==
    f.outcome # "ok" \/ ~f.backupWriteOk \/ ~f.readdirOk \/ f.unlinkFailAt # 0

\* whether saveSession throws: only when fs.writeFile of the record does;
\* createSessionBackup and cleanupOldBackups catch their own errors
SaveThrows(f) == f.outcome # "ok"

\* fault: which file operation of the call failed
SaveSession(sessionData, f) ==
    /\ pc = "idle"
    /\ calls < MaxCalls
    /\ calls' = calls + 1
    /\ backupDir' = SaveBackups(backupDir, sessionData, now, config,
                                f.backupWriteOk, f.readdirOk, f.unlinkFailAt)
    /\ sessionDir' = SaveRecord(sessionDir, sessionData, now, f.outcome)
    /\ result' = [op |-> "save",
                  kind |-> IF SaveThrows(f) THEN "error" ELSE "ok",
                  session |-> SavedSession(sessionData, now),
                  reason |-> IF SaveThrows(f) THEN "Session save failed" ELSE "",
                  via |-> "", file |-> <<>>, at |-> now, fault |-> f]
    /\ snapLog' = Snapped(snapLog, sessionData, now,
                          config.enableAutoBackup /\ f.backupWriteOk)
    /\ ioFailed' = (ioFailed \/ f # NoFault)
    /\ UNCHANGED <<now, config>>
    /\ UNCHANGED resumeVars
    /\ UNCHANGED <<writes, monitorVars>>
    /\ UNCHANGED <<made, dirVars>>

InitStore ==
    /\ IdleInit
    /\ config = [DefaultConfig EXCEPT !.maxBackups = SmallMaxBackups]
    /\ sessionDir = EmptyDir
    /\ backupDir = EmptyDir

NextStore ==
    \/ Tick
    \/ \E s \in SaveInputs, f \in Faults : SaveSession(s, f)

SpecStore == InitStore /\ [][NextStore]_vars

(***************************************************************************)
(* Recovery Orchestrator: resumeSession, step by step.                     *)
(*   pc: idle -> repairing -> authenticating -> persisting -> done         *)
(*       any failure -> failed -> recovering -> done                       *)
(***************************************************************************)
\* the faults that can strike a snapshot (no write of a primary record)
SnapshotFaults == {f \in Faults : f.outcome = "ok"}

\* resumeSession(sessionId), Step 1: loadSession
ResumeSession(sessionId, readOk) ==
    /\ pc = "idle"
    /\ rid' = sessionId
    /\ atCall' = [sessionDir |-> sessionDir, backupDir |-> backupDir]
    /\ readLog' = <<>>
    /\ refreshCalls' = 0
    /\ authLog' = NoAuth
    /\ repairLog' = NoRepair
    /\ queue' = <<>>
    /\ result' = NoResult
    /\ calls' = calls + 1
    /\ LET r == LoadSession(sessionDir, sessionId, now, readOk)
       IN  /\ cur' = r.session
           /\ origErr' = r.err
           /\ pc' = IF r.ok THEN "repairing" ELSE "failed"
    /\ ioFailed' = (ioFailed \/ (sessionId \in DOMAIN sessionDir /\ ~readOk))
    /\ UNCHANGED <<now, config, sessionDir, backupDir, snapLog>>
    /\ UNCHANGED <<writes, monitorVars>>
    /\ UNCHANGED <<made, dirVars>>

\* A line whose JSON text is a number, a string or a boolean (5, "x", true):
\* JSON.parse accepts it, it has no type 'metadata', and loadSession pushes
\* the value among the messages.  Its fields read as undefined.
ScalarEntry == [timestamp |-> 0, type |-> "scalar", content |-> "", sessionId |-> <<>>]

IsPrimitive(message) == message.type = "scalar"

\* Fix 2 assigns message.sessionId on every message without one; the
\* assignment to a property of a primitive throws a TypeError (class bodies
\* are strict code)
RepairThrows(sessionData) ==
    \E i \in 1..Len(sessionData.messages) :
        /\ sessionData.messages[i].sessionId = <<>>
        /\ IsPrimitive(sessionData.messages[i])

\* Step 2: validateAndRepairSession(sessionData); when it throws, the catch
\* of resumeSession takes over
Repairing(f) ==
    /\ pc = "repairing"
    /\ repairLog' = [ran |-> TRUE, input |-> cur, at |-> now]
    /\ IF RepairThrows(cur)
       THEN /\ pc' = "failed"
            /\ origErr' = "TypeError"
            /\ UNCHANGED <<cur, backupDir, snapLog, ioFailed>>
       ELSE /\ cur' = ValidateAndRepairSession(cur, now)
            /\ backupDir' = RepairBackups(backupDir, cur, now, config,
                                          f.backupWriteOk, f.readdirOk, f.unlinkFailAt)
            /\ snapLog' = Snapped(snapLog, ValidateAndRepairSession(cur, now), now,
                                  Repaired(cur) /\ config.enableAutoBackup /\ f.backupWriteOk)
            /\ ioFailed' = (ioFailed \/ (Repaired(cur) /\ config.enableAutoBackup /\ f # NoFault))
            /\ pc' = "authenticating"
            /\ UNCHANGED origErr
    /\ UNCHANGED <<now, config, sessionDir, rid, queue, result, readLog,
                   refreshCalls, authLog, atCall, calls>>
    /\ UNCHANGED <<writes, monitorVars>>
    /\ UNCHANGED <<made, dirVars>>

\* Step 3: ensureValidAuthentication(sessionData); refreshOk: whether the
\* external refresh call succeeds
Authenticating(refreshOk) ==
    /\ pc = "authenticating"
    /\ authLog' = [checked |-> TRUE, on |-> "primary",
                   expiry |-> cur.metadata.oauthTokenExpiry,
                   at |-> now, threshold |-> config.oauthRefreshThreshold]
    /\ IF NeedsRefresh(cur.metadata.oauthTokenExpiry, now, config.oauthRefreshThreshold)
       THEN /\ refreshCalls' = refreshCalls + 1
            /\ now' = now + RefreshDelayMs
            /\ IF refreshOk
               THEN /\ cur' = [cur EXCEPT !.metadata.oauthTokenExpiry = RefreshOAuthToken(now)]
                    /\ pc' = "persisting"
                    /\ UNCHANGED origErr
               ELSE /\ origErr' = "Authentication failed"
                    /\ pc' = "failed"
                    /\ UNCHANGED cur
       ELSE /\ pc' = "persisting"
            /\ UNCHANGED <<refreshCalls, now, cur, origErr>>
    /\ UNCHANGED <<config, sessionDir, backupDir, rid, queue, result, readLog,
                   repairLog, atCall, snapLog, ioFailed, calls>>
    /\ UNCHANGED <<writes, monitorVars>>
    /\ UNCHANGED <<made, dirVars>>

\* Step 4: the session with lastUpdated and isActive set
Activated(sessionData, t) ==
    [sessionData EXCEPT !.metadata.lastUpdated = t, !.metadata.isActive = TRUE]

\* Steps 4 and 5: update the metadata, saveSession(sessionData), return
Persisting(f) ==
    /\ pc = "persisting"
    /\ backupDir' = SaveBackups(backupDir, Activated(cur, now), now, config,
                                f.backupWriteOk, f.readdirOk, f.unlinkFailAt)
    /\ sessionDir' = SaveRecord(sessionDir, Activated(cur, now), now, f.outcome)
    /\ snapLog' = Snapped(snapLog, Activated(cur, now), now,
                          config.enableAutoBackup /\ f.backupWriteOk)
    /\ ioFailed' = (ioFailed \/ f # NoFault)
    /\ cur' = SavedSession(Activated(cur, now), now)
    /\ IF ~SaveThrows(f)
       THEN /\ result' = [op |-> "resume", kind |-> "ok",
                          session |-> SavedSession(Activated(cur, now), now),
                          reason |-> "", via |-> "primary", file |-> <<>>,
                          at |-> now]
            /\ pc' = "done"
            /\ UNCHANGED origErr
       ELSE /\ origErr' = "Session save failed"
            /\ pc' = "failed"
            /\ UNCHANGED result
    /\ UNCHANGED <<now, config, rid, queue, readLog, refreshCalls, authLog,
                   repairLog, atCall, calls>>
    /\ UNCHANGED <<writes, monitorVars>>
    /\ UNCHANGED <<made, dirVars>>

\* the catch branch: attemptSessionRecovery lists the backups (getSessionBackups)
AttemptSessionRecovery(readdirOk) ==
    /\ pc = "failed"
    /\ queue' = IF readdirOk THEN GetSessionBackups(backupDir, rid) ELSE <<>>
    /\ ioFailed' = (ioFailed \/ ~readdirOk)
    /\ pc' = "recovering"
    /\ UNCHANGED <<now, config, sessionDir, backupDir, rid, cur, origErr, result,
                   readLog, refreshCalls, authLog, repairLog, atCall, snapLog, calls>>
    /\ UNCHANGED <<writes, monitorVars>>
    /\ UNCHANGED <<made, dirVars>>

\* whether JSON.parse and validateAndRepairSession accept a backup's content
BackupLoads(content) == content.kind = "session"

\* one turn of the loop of attemptSessionRecovery on a backup that fails to
\* load: the read fails, JSON.parse throws, or validateAndRepairSession throws
BackupFails(readOk) ==
    /\ pc = "recovering"
    /\ queue # <<>>
    /\ ~readOk \/ ~BackupLoads(backupDir[Head(queue)])
    /\ readLog' = Append(readLog, Head(queue))
    /\ queue' = Tail(queue)
    /\ ioFailed' = (ioFailed \/ ~readOk)
    /\ UNCHANGED <<now, config, sessionDir, backupDir, pc, rid, cur, origErr, result,
                   refreshCalls, authLog, repairLog, atCall, snapLog, calls>>
    /\ UNCHANGED <<writes, monitorVars>>
    /\ UNCHANGED <<made, dirVars>>

\* one turn of the loop on a backup that loads: it is validated and returned
\* by attemptSessionRecovery, and by resumeSession
BackupRecovers(f) ==
    /\ pc = "recovering"
    /\ queue # <<>>
    /\ BackupLoads(backupDir[Head(queue)])
    /\ LET backupData == backupDir[Head(queue)].data
           validated  == ValidateAndRepairSession(backupData, now)
       IN  /\ readLog' = Append(readLog, Head(queue))
           /\ repairLog' = [ran |-> TRUE, input |-> backupData, at |-> now]
           /\ backupDir' = RepairBackups(backupDir, backupData, now, config,
                                         f.backupWriteOk, f.readdirOk, f.unlinkFailAt)
           /\ snapLog' = Snapped(snapLog, validated, now,
                                 Repaired(backupData) /\ config.enableAutoBackup
                                     /\ f.backupWriteOk)
           /\ ioFailed' = (ioFailed \/ (Repaired(backupData) /\ config.enableAutoBackup
                                            /\ f # NoFault))
           /\ cur' = validated
           /\ result' = [op |-> "resume", kind |-> "ok", session |-> validated,
                         reason |-> "", via |-> "backup", file |-> Head(queue),
                         at |-> now]
    /\ pc' = "done"
    /\ UNCHANGED <<now, config, sessionDir, rid, origErr, queue, refreshCalls,
                   authLog, atCall, calls>>
    /\ UNCHANGED <<writes, monitorVars>>
    /\ UNCHANGED <<made, dirVars>>

\* the reason as a bug would have it: that of the last backup attempt
ThrownReason_LastBackup(originalError, attempts) ==
    IF attempts = <<>> THEN originalError ELSE "Backup file failed to load"

\* the reason of the SessionResumeError: error.message of the error the catch
\* of resumeSession caught; the backupError of each attempt is only logged
ThrownReason(originalError, attempts) == originalError

\* no backup is left: attemptSessionRecovery returns null and resumeSession
\* throws SessionResumeError with the message of the error it caught
RecoveryExhausted ==
    /\ pc = "recovering"
    /\ queue = <<>>
    /\ result' = [op |-> "resume", kind |-> "error", session |-> NoSession,
                  reason |-> ThrownReason(origErr, readLog), via |-> "",
                  file |-> <<>>, at |-> now]
    /\ pc' = "done"
    /\ UNCHANGED <<now, config, sessionDir, backupDir, rid, cur, origErr, queue,
                   readLog, refreshCalls, authLog, repairLog, atCall, snapLog,
                   ioFailed, calls>>
    /\ UNCHANGED <<writes, monitorVars>>
    /\ UNCHANGED <<made, dirVars>>

\* updateConfig(newConfig), newConfig a partial configuration
UpdateConfig(newConfig) ==
    /\ pc = "idle"
    /\ config' = [k \in DOMAIN config |->
                     IF k \in DOMAIN newConfig THEN newConfig[k] ELSE config[k]]
    /\ UNCHANGED <<now, sessionDir, backupDir, result, snapLog, ioFailed, calls>>
    /\ UNCHANGED resumeVars
    /\ UNCHANGED <<writes, monitorVars>>
    /\ UNCHANGED <<made, dirVars>>

(***************************************************************************)
(* Spec: one resumeSession on a store that earlier saves, and damage from  *)
(* outside the program, have left behind.                                  *)
(***************************************************************************)
\* the expiries of stored credentials: none, 10 minutes out, one millisecond
\* more than the default threshold out, one hour out
Expiries == {0, T0 + 10 * MsPerMinute, T0 + DefaultRefreshThreshold * MsPerMinute + 1,
             T0 + 60 * MsPerMinute}

PrimarySession(expiry, sid) ==
    [metadata |-> Metadata(IdA, T0 - 5000, T0 - 4000, 2, FALSE, expiry, "1.0.0"),
     messages |-> <<Message(T0 - 4500, "1", sid), Message(T0 - 4000, "2", sid)>>]

PrimaryContents ==
    {<<MalformedLine, MalformedLine>>} \cup
    {SerializeSession(PrimarySession(e, sid)) : e \in Expiries, sid \in {<<>>, IdA}}

InitSessionDirs == {EmptyDir} \cup {WithFile(EmptyDir, IdA, c) : c \in PrimaryContents}

\* the backups that may exist: (session id, instant of the snapshot)
BackupCandidates == {<<IdA, T0 - 2000>>, <<IdA, T0 - 1000>>, <<IdB, T0 - 1500>>}

\* a snapshot of session id taken at t, with two messages
BackupSession(id, t, expiry) ==
    [metadata |-> Metadata(id, T0 - 5000, t, 2, FALSE, expiry, "1.0.0"),
     messages |-> <<Message(t - 200, "3", id), Message(t - 100, "4", id)>>]

\* what a backup file may hold: text that is no JSON, JSON that is no session
\* (no metadata object), or a session, its credential fresh or about to expire
ContentKinds == {"garbage", "nometa", "plain", "expiring"}

ContentOf(c, kind) ==
    CASE kind = "garbage"  -> [kind |-> "garbage", data |-> NoSession]
      [] kind = "nometa"   -> [kind |-> "nometa", data |-> NoSession]
      [] kind = "plain"    -> BackupContent(BackupSession(c[1], c[2], 0))
      [] kind = "expiring" -> BackupContent(BackupSession(c[1], c[2], T0 + MsPerMinute))

DirOf(g) ==
    [n \in {BackupName(c[1], c[2]) : c \in DOMAIN g} |->
        LET c == CHOOSE c \in DOMAIN g : BackupName(c[1], c[2]) = n
        IN  ContentOf(c, g[c])]

InitBackupDirs ==
    {DirOf(g) : g \in UNION {[C -> ContentKinds] : C \in SUBSET BackupCandidates}}

\* the partial configurations handed to updateConfig
ConfigUpdates == {[oauthRefreshThreshold |-> 90], [enableAutoBackup |-> FALSE]}

Init ==
    /\ IdleInit
    /\ config = DefaultConfig
    /\ sessionDir \in InitSessionDirs
    /\ backupDir \in InitBackupDirs

Next ==
    \/ Tick
    \/ \E c \in ConfigUpdates : UpdateConfig(c)
    \/ \E id \in Ids, readOk \in BOOLEAN : ResumeSession(id, readOk)
    \/ \E f \in SnapshotFaults : Repairing(f)
    \/ \E refreshOk \in BOOLEAN : Authenticating(refreshOk)
    \/ \E f \in Faults : Persisting(f)
    \/ \E readdirOk \in BOOLEAN : AttemptSessionRecovery(readdirOk)
    \/ \E readOk \in BOOLEAN : BackupFails(readOk)
    \/ \E f \in SnapshotFaults : BackupRecovers(f)
    \/ RecoveryExhausted

Spec == Init /\ [][Next]_vars

(***************************************************************************)
(* SpecLive: one resumeSession, every step of which is taken once it can   *)
(* be (the runtime resumes an async function when the promise it awaits    *)
(* settles), with an external refresh call that may never settle.          *)
(***************************************************************************)
\* Step 3 when the external refresh call never responds: the await of
\* refreshOAuthToken stays pending, nothing bounds the wait
RefreshNeverResponds ==
    /\ pc = "authenticating"
    /\ NeedsRefresh(cur.metadata.oauthTokenExpiry, now, config.oauthRefreshThreshold)
    /\ authLog' = [checked |-> TRUE, on |-> "primary",
                   expiry |-> cur.metadata.oauthTokenExpiry,
                   at |-> now, threshold |-> config.oauthRefreshThreshold]
    /\ refreshCalls' = refreshCalls + 1
    /\ pc' = "refreshing"
    /\ UNCHANGED <<now, config, sessionDir, backupDir, rid, cur, origErr, queue,
                   result, readLog, repairLog, atCall, snapLog, ioFailed, calls>>
    /\ UNCHANGED <<writes, monitorVars>>
    /\ UNCHANGED <<made, dirVars>>

\* the steps of a running resumeSession whose awaited operation has settled
ResumeStep ==
    \/ \E f \in SnapshotFaults : Repairing(f)
    \/ \E refreshOk \in BOOLEAN : Authenticating(refreshOk)
    \/ \E f \in Faults : Persisting(f)
    \/ \E readdirOk \in BOOLEAN : AttemptSessionRecovery(readdirOk)
    \/ \E readOk \in BOOLEAN : BackupFails(readOk)
    \/ \E f \in SnapshotFaults : BackupRecovers(f)
    \/ RecoveryExhausted

InitLive ==
    /\ IdleInit
    /\ config = DefaultConfig
    /\ sessionDir \in {EmptyDir} \cup
           {WithFile(EmptyDir, IdA, SerializeSession(PrimarySession(e, IdA))) :
               e \in {0, T0 + 10 * MsPerMinute}}
    /\ backupDir \in {DirOf(g) : g \in UNION {[C -> {"garbage", "plain"}] :
                                                C \in SUBSET BackupCandidates}}

NextLive ==
    \/ Tick
    \/ \E c \in ConfigUpdates : UpdateConfig(c)
    \/ \E id \in Ids, readOk \in BOOLEAN : ResumeSession(id, readOk)
    \/ ResumeStep
    \/ RefreshNeverResponds

SpecLive == InitLive /\ [][NextLive]_vars /\ WF_vars(ResumeStep)

(***************************************************************************)
(* SpecRepair: validateAndRepairSession on the sessions that JSON.parse    *)
(* can hand it, fields missing or not.                                     *)
(***************************************************************************)
MessageInputs ==
    {Message(ts, "m", sid) : ts \in {0, -5, T0 - 4000}, sid \in {<<>>, IdA, IdB}}

RepairInputs ==
    {[metadata |-> Metadata(sid, T0 - 5000, T0 - 4000, total, FALSE, 0, version),
      messages |-> msgs] :
        sid \in {<<>>, IdA}, total \in {0, 5}, version \in {"", "1.0.0"},
        msgs \in UNION {[1..n -> MessageInputs] : n \in 0..MaxMsgs}}

InitRepair ==
    /\ now = T0
    /\ config = DefaultConfig
    /\ sessionDir = EmptyDir
    /\ backupDir = EmptyDir
    /\ pc = "repairing"
    /\ rid = IdA
    /\ cur \in RepairInputs
    /\ origErr = ""
    /\ queue = <<>>
    /\ result = NoResult
    /\ readLog = <<>>
    /\ refreshCalls = 0
    /\ authLog = NoAuth
    /\ repairLog = NoRepair
    /\ atCall = NoCall
    /\ snapLog = <<>>
    /\ ioFailed = FALSE
    /\ calls = 1
    /\ writes = {}
    /\ made = AllDirs
    /\ MonitorInit
    /\ HandlerInit

\* validateAndRepairSession applied a second time, to the session the first
\* pass returned
RepairingAgain(f) ==
    /\ pc = "authenticating"
    /\ repairLog.ran
    /\ cur' = ValidateAndRepairSession(cur, now)
    /\ repairLog' = [ran |-> TRUE, input |-> cur, at |-> now]
    /\ backupDir' = RepairBackups(backupDir, cur, now, config,
                                  f.backupWriteOk, f.readdirOk, f.unlinkFailAt)
    /\ snapLog' = Snapped(snapLog, ValidateAndRepairSession(cur, now), now,
                          Repaired(cur) /\ config.enableAutoBackup /\ f.backupWriteOk)
    /\ ioFailed' = (ioFailed \/ (Repaired(cur) /\ config.enableAutoBackup /\ f # NoFault))
    /\ pc' = "revalidated"
    /\ UNCHANGED <<now, config, sessionDir, rid, origErr, queue, result, readLog,
                   refreshCalls, authLog, atCall, calls>>
    /\ UNCHANGED <<writes, monitorVars>>
    /\ UNCHANGED <<made, dirVars>>

NextRepair ==
    \/ Tick
    \/ \E f \in SnapshotFaults : Repairing(f)
    \/ \E f \in SnapshotFaults : RepairingAgain(f)

SpecRepair == InitRepair /\ [][NextRepair]_vars

(***************************************************************************)
(* SpecLoad: loadSession on a stored record, then validateAndRepairSession *)
(* on what it returns (Steps 1 and 2 of resumeSession).                    *)
(***************************************************************************)
\* the instants a stored record may carry: none, one in the past, one after
\* the current time (the clock of the writer ran ahead, or the record was
\* edited)
StoredInstants == {0, T0 - 5000, T0 + 5000}

StoredMessages ==
    UNION {[1..n -> {Message(ts, "m", IdA) : ts \in StoredInstants}] : n \in 0..MaxMsgs}

\* a record of session IdA every line of which parses: its message lines,
\* after a metadata line or not
WellFormedRecords ==
    {[i \in 1..Len(msgs) |-> MessageLine(msgs[i])] : msgs \in StoredMessages} \cup
    {SerializeSession([metadata |-> Metadata(IdA, created, T0 - 4000, Len(msgs),
                                             FALSE, 0, "1.0.0"),
                       messages |-> msgs]) :
        created \in StoredInstants \ {0}, msgs \in StoredMessages}

\* record r with one more line after its first k lines
InsertLine(r, k, line) == SubSeq(r, 1, k) \o <<line>> \o SubSeq(r, k + 1, Len(r))

\* a record of session IdA: well formed, or with one line that JSON.parse
\* rejects (a torn write, an edit) anywhere among its lines
StoredRecords ==
    WellFormedRecords \cup
    UNION {{InsertLine(r, k, MalformedLine) : k \in 0..Len(r)} : r \in WellFormedRecords}

InitLoad ==
    /\ IdleInit
    /\ config = DefaultConfig
    /\ sessionDir \in {WithFile(EmptyDir, IdA, r) : r \in StoredRecords}
    /\ backupDir = EmptyDir

NextLoad ==
    \/ Tick
    \/ \E id \in Ids, readOk \in BOOLEAN : ResumeSession(id, readOk)
    \/ \E f \in SnapshotFaults : Repairing(f)

SpecLoad == InitLoad /\ [][NextLoad]_vars

(***************************************************************************)
(* SpecParsed: loadSession and validateAndRepairSession on records all of  *)
(* whose lines JSON.parse accepts, objects or not.                         *)
(***************************************************************************)
\* a well-formed record with one more line, the text of a JSON primitive
ParseableRecords ==
    WellFormedRecords \cup
    UNION {{InsertLine(r, k, MessageLine(ScalarEntry)) : k \in 0..Len(r)} :
              r \in WellFormedRecords}

InitParsed ==
    /\ IdleInit
    /\ config = DefaultConfig
    /\ sessionDir \in {WithFile(EmptyDir, IdA, r) : r \in ParseableRecords}
    /\ backupDir = EmptyDir

SpecParsed == InitParsed /\ [][NextLoad]_vars

(***************************************************************************)
(* SpecIdentity: resumeSession of a session whose stored metadata carries  *)
(* a sessionId or, written by an earlier version, does not; the only       *)
(* backup that may exist is one of the session itself.                     *)
(***************************************************************************)
\* the stored session without a sessionId in its metadata and its messages
AnonymousSession(expiry) ==
    [PrimarySession(expiry, <<>>) EXCEPT !.metadata.sessionId = <<>>]

IdentityRecords ==
    {SerializeSession(s) :
        s \in UNION {{PrimarySession(e, IdA), AnonymousSession(e)} :
                        e \in {0, T0 + MsPerMinute}}}

InitIdentity ==
    /\ IdleInit
    /\ config = DefaultConfig
    /\ sessionDir \in {WithFile(EmptyDir, IdA, r) : r \in IdentityRecords}
    /\ backupDir \in {DirOf([c \in C |-> "plain"]) : C \in SUBSET {<<IdA, T0 - 1000>>}}

NextIdentity ==
    \/ Tick
    \/ \E readOk \in BOOLEAN : ResumeSession(IdA, readOk)
    \/ ResumeStep

SpecIdentity == InitIdentity /\ [][NextIdentity]_vars

(***************************************************************************)
(* Session Registry: listSessions and deleteSession.                       *)
(***************************************************************************)
\* the orders in which fs.readdir may hand out the files named by S
Orders(S) ==
    {q \in [1..Cardinality(S) -> S] : \A i, j \in 1..Cardinality(S) : q[i] = q[j] => i = j}

\* the comparator with its operands exchanged, a.lastUpdated - b.lastUpdated:
\* the entry with the smaller lastUpdated first
RECURSIVE InsertByLastUpdated_Ascending(_, _)
InsertByLastUpdated_Ascending(sorted, m) ==
    IF sorted = <<>> THEN <<m>>
    ELSE IF Head(sorted).lastUpdated <= m.lastUpdated
         THEN <<Head(sorted)>> \o InsertByLastUpdated_Ascending(Tail(sorted), m)
         ELSE <<m>> \o sorted

\* sessions.sort((a, b) => b.lastUpdated - a.lastUpdated): a stable sort, the
\* entry with the larger lastUpdated first
RECURSIVE InsertByLastUpdated(_, _)
InsertByLastUpdated(sorted, m) ==
    IF sorted = <<>> THEN <<m>>
    ELSE IF Head(sorted).lastUpdated >= m.lastUpdated
         THEN <<Head(sorted)>> \o InsertByLastUpdated(Tail(sorted), m)
         ELSE <<m>> \o sorted

RECURSIVE SortByLastUpdated(_)
SortByLastUpdated(metas) ==
    IF metas = <<>> THEN <<>>
    ELSE InsertByLastUpdated(SortByLastUpdated(SubSeq(metas, 1, Len(metas) - 1)),
                             metas[Len(metas)])

\* the loop of listSessions over the files in readdir order: the metadata of
\* every session that loads, the others skipped
RECURSIVE LoadedMetadata(_, _, _, _)
LoadedMetadata(dir, files, t, unreadable) ==
    IF files = <<>> THEN <<>>
    ELSE LET r == LoadSession(dir, Head(files), t, Head(files) \notin unreadable)
         IN  (IF r.ok THEN <<r.session.metadata>> ELSE <<>>)
                 \o LoadedMetadata(dir, Tail(files), t, unreadable)

\* what listSessions returns; files: the directory in readdir order;
\* readdirOk: whether fs.readdir succeeds; unreadable: the ids whose
\* fs.readFile fails
ListedSessions(dir, files, t, readdirOk, unreadable) ==
    IF readdirOk THEN SortByLastUpdated(LoadedMetadata(dir, files, t, unreadable))
    ELSE <<>>

ListSessions(files, readdirOk, unreadable) ==
    /\ pc = "idle"
    /\ calls < MaxCalls
    /\ calls' = calls + 1
    /\ result' = [op |-> "list", kind |-> "ok",
                  sessions |-> ListedSessions(sessionDir, files, now, readdirOk,
                                              unreadable),
                  files |-> files, readdirOk |-> readdirOk,
                  unreadable |-> unreadable, at |-> now]
    /\ ioFailed' = (ioFailed \/ ~readdirOk \/ unreadable # {})
    /\ UNCHANGED <<now, config, sessionDir, backupDir, snapLog>>
    /\ UNCHANGED resumeVars
    /\ UNCHANGED <<writes, monitorVars>>
    /\ UNCHANGED <<made, dirVars>>

\* the faults that can strike deleteSession: the unlink of the primary record
\* (outcome "untouched"), the readdir of the backups, the unlink of a backup
DeleteFaults == {f \in Faults : f.backupWriteOk /\ f.outcome # "partial"}

\* whether fs.unlink(sessionFile) throws: no such file, or the fault
PrimaryUnlinkThrows(dir, sessionId, f) == sessionId \notin DOMAIN dir \/ f.outcome # "ok"

\* the backups deleteSession lists, and whether one of their unlinks throws
DeleteList(bdir, sessionId, f) ==
    IF f.readdirOk THEN GetSessionBackups(bdir, sessionId) ELSE <<>>

BackupUnlinkThrows(bdir, sessionId, f) ==
    f.unlinkFailAt # 0 /\ f.unlinkFailAt <= Len(DeleteList(bdir, sessionId, f))

\* deleteSession, the session directory afterwards
DeletedRecord(sdir, sessionId, f) ==
    IF PrimaryUnlinkThrows(sdir, sessionId, f) THEN sdir
    ELSE WithoutFiles(sdir, {sessionId})

\* deleteSession, the backup directory afterwards
DeletedBackups(sdir, bdir, sessionId, f) ==
    IF PrimaryUnlinkThrows(sdir, sessionId, f) THEN bdir
    ELSE LET backups == DeleteList(bdir, sessionId, f)
             done    == IF BackupUnlinkThrows(bdir, sessionId, f)
                        THEN f.unlinkFailAt - 1
                        ELSE Len(backups)
         IN  WithoutFiles(bdir, {backups[i] : i \in 1..done})

\* deleteSession, the value returned
DeleteReturns(sdir, bdir, sessionId, f) ==
    /\ ~PrimaryUnlinkThrows(sdir, sessionId, f)
    /\ ~BackupUnlinkThrows(bdir, sessionId, f)

DeleteSession(sessionId, f) ==
    /\ pc = "idle"
    /\ calls < MaxCalls
    /\ calls' = calls + 1
    /\ sessionDir' = DeletedRecord(sessionDir, sessionId, f)
    /\ backupDir' = DeletedBackups(sessionDir, backupDir, sessionId, f)
    /\ result' = [op |-> "delete", kind |-> "ok", id |-> sessionId,
                  returned |-> DeleteReturns(sessionDir, backupDir, sessionId, f),
                  existed |-> sessionId \in DOMAIN sessionDir,
                  fault |-> f, at |-> now]
    /\ ioFailed' = (ioFailed \/ f # NoFault)
    /\ UNCHANGED <<now, config, snapLog>>
    /\ UNCHANGED resumeVars
    /\ UNCHANGED <<writes, monitorVars>>
    /\ UNCHANGED <<made, dirVars>>

(***************************************************************************)
(* SpecStartup: the manager right after its constructor returned.  The     *)
(* constructor calls ensureDirectories() without awaiting it, so the two   *)
(* mkdir calls complete while later operations already run.                *)
(***************************************************************************)
\* await fs.mkdir(this.config.sessionDir, { recursive: true }) completes
MkdirSessionDir ==
    /\ "sessionDir" \notin made
    /\ made' = made \cup {"sessionDir"}
    /\ UNCHANGED <<now, config, sessionDir, backupDir, result, snapLog, ioFailed, calls>>
    /\ UNCHANGED resumeVars
    /\ UNCHANGED <<writes, monitorVars, dirVars>>

\* then await fs.mkdir(this.config.backupDir, { recursive: true }) completes
MkdirBackupDir ==
    /\ "sessionDir" \in made
    /\ "backupDir" \notin made
    /\ made' = made \cup {"backupDir"}
    /\ UNCHANGED <<now, config, sessionDir, backupDir, result, snapLog, ioFailed, calls>>
    /\ UNCHANGED resumeVars
    /\ UNCHANGED <<writes, monitorVars, dirVars>>

\* what the file operations of a saveSession meet: fs.writeFile into and
\* fs.readdir of a directory that does not exist yet fail with ENOENT
StartupFault(dirs) ==
    Fault("backupDir" \in dirs, "backupDir" \in dirs, 0,
          IF "sessionDir" \in dirs THEN "ok" ELSE "untouched")

\* the directories exist from an earlier run, or do not (first run)
InitStartup ==
    /\ ManagerFields
    /\ MonitorInit
    /\ HandlerInit
    /\ made \in {{}, AllDirs}
    /\ config = DefaultConfig
    /\ sessionDir = EmptyDir
    /\ backupDir = EmptyDir

NextStartup ==
    \/ Tick
    \/ MkdirSessionDir
    \/ MkdirBackupDir
    \/ \E s \in SaveInputs : SaveSession(s, StartupFault(made))

SpecStartup == InitStartup /\ [][NextStartup]_vars

(***************************************************************************)
(* SpecRegistry: listSessions and deleteSession on a store that earlier    *)
(* saves have left behind.                                                 *)
(***************************************************************************)
\* what the store may hold of one session id: no record, the record of a
\* saved session, a record none of whose lines parses
RegistryRecords(id) ==
    {<<>>, SerializeSession(StoreSession(id, 1, 1)), <<MalformedLine>>}

RegistryDir(recA, recB) ==
    [id \in {i \in Ids : (IF i = IdA THEN recA ELSE recB) # <<>>} |->
        IF id = IdA THEN recA ELSE recB]

InitSessionRegistry ==
    {RegistryDir(recA, recB) : recA \in RegistryRecords(IdA), recB \in RegistryRecords(IdB)}

InitBackupRegistry ==
    {DirOf([c \in C |-> "plain"]) : C \in SUBSET BackupCandidates}

InitRegistry ==
    /\ IdleInit
    /\ config = DefaultConfig
    /\ sessionDir \in InitSessionRegistry
    /\ backupDir \in InitBackupRegistry

NextRegistry ==
    \/ Tick
    \/ \E id \in Ids, f \in DeleteFaults : DeleteSession(id, f)
    \/ \E files \in Orders(DOMAIN sessionDir), readdirOk \in BOOLEAN,
          unreadable \in {{}} \cup {{id} : id \in Ids} :
              ListSessions(files, readdirOk, unreadable)

SpecRegistry == InitRegistry /\ [][NextRegistry]_vars

(***************************************************************************)
(* SpecRoundTrip: saveSession of sessions whose messages carry no          *)
(* sessionId, then resumeSession (the Issue #9800 scenario of the          *)
(* integration tests).                                                     *)
(***************************************************************************)
IdlessMessages(n) == [i \in 1..n |-> Message(T0 - 4000 + i, Digits[i + 1], <<>>)]

\* the sessions of the scenario: n messages without sessionId, a totalMessages
\* that is not n (3 for 2 messages, 2 for 1 message in the tests), no token for
\* the session of one message and a token that expires in 5 minutes for the
\* others, as in the tests
RoundTripInputs ==
    {[metadata |-> Metadata(IdA, T0 - 5000, T0 - 4000, n + 1, FALSE,
                            IF n = 1 THEN 0 ELSE T0 + 5 * MsPerMinute, "1.0.0"),
      messages |-> IdlessMessages(n)] : n \in 0..MaxMsgs}

\* the faults of the saves of the scenario: none, or a record cut short
RoundTripFaults == {f \in Faults : f = NoFault \/ f.outcome = "partial"}

NextRoundTrip ==
    \/ Tick
    \/ \E s \in RoundTripInputs, f \in RoundTripFaults : SaveSession(s, f)
    \/ \E readOk \in BOOLEAN : ResumeSession(IdA, readOk)
    \/ ResumeStep

SpecRoundTrip == InitStore /\ [][NextRoundTrip]_vars

(***************************************************************************)
(* SpecConcurrent: saveSession calls of one session id whose awaits         *)
(* interleave.  The class holds no lock and no queue: a call runs up to    *)
(* its await of fs.writeFile, and fs.writeFile itself opens the file with  *)
(* flag 'w' (which empties it) and then writes the content from offset 0,  *)
(* other calls running in between.                                         *)
(***************************************************************************)
\* the sessions the interleaved calls save: one id, records of different length
ConcurrentInputs == {StoreSession(IdA, 1, 1), StoreSession(IdA, 2, 2)}

\* saveSession up to the await of fs.writeFile: the snapshot, lastUpdated, the
\* serialization; the write is then in flight
SaveBegins(sessionData) ==
    /\ pc = "idle"
    /\ calls < MaxCalls
    /\ calls' = calls + 1
    /\ backupDir' = SaveBackups(backupDir, sessionData, now, config, TRUE, TRUE, 0)
    /\ snapLog' = Snapped(snapLog, sessionData, now, config.enableAutoBackup)
    /\ writes' = writes \cup {[caller |-> calls + 1,
                                session |-> SavedSession(sessionData, now),
                                opened |-> FALSE]}
    /\ UNCHANGED <<now, config, sessionDir, result, ioFailed>>
    /\ UNCHANGED resumeVars
    /\ UNCHANGED monitorVars
    /\ UNCHANGED <<made, dirVars>>

\* fs.writeFile opens the file: flag 'w' creates it or truncates it to nothing
WriteOpens(w) ==
    /\ w \in writes
    /\ ~w.opened
    /\ sessionDir' = WithFile(sessionDir, w.session.metadata.sessionId, <<>>)
    /\ writes' = (writes \ {w}) \cup {[w EXCEPT !.opened = TRUE]}
    /\ UNCHANGED <<now, config, backupDir, result, snapLog, ioFailed, calls>>
    /\ UNCHANGED resumeVars
    /\ UNCHANGED monitorVars
    /\ UNCHANGED <<made, dirVars>>

\* what a write of `content` at offset 0 leaves of a file holding `old`: the
\* content, followed by what of `old` lies beyond its length; aligned: whether
\* the content ends where a line of `old` ends, or cuts a line of it
Overlay(content, old, aligned) ==
    IF Len(old) <= Len(content) THEN content
    ELSE IF aligned THEN content \o SubSeq(old, Len(content) + 1, Len(old))
    ELSE content \o <<MalformedLine>> \o SubSeq(old, Len(content) + 2, Len(old))

\* fs.writeFile writes the content through its own descriptor and closes it;
\* saveSession returns
WriteWrites(w, aligned) ==
    /\ w \in writes
    /\ w.opened
    /\ sessionDir' = WithFile(sessionDir, w.session.metadata.sessionId,
                              Overlay(SerializeSession(w.session),
                                      sessionDir[w.session.metadata.sessionId], aligned))
    /\ writes' = writes \ {w}
    /\ result' = [op |-> "save", kind |-> "ok", session |-> w.session, reason |-> "",
                  via |-> "", file |-> <<>>, at |-> now, fault |-> NoFault]
    /\ UNCHANGED <<now, config, backupDir, snapLog, ioFailed, calls>>
    /\ UNCHANGED resumeVars
    /\ UNCHANGED monitorVars
    /\ UNCHANGED <<made, dirVars>>

NextConcurrent ==
    \/ Tick
    \/ \E s \in ConcurrentInputs : SaveBegins(s)
    \/ \E w \in writes : WriteOpens(w)
    \/ \E w \in writes, aligned \in BOOLEAN : WriteWrites(w, aligned)

SpecConcurrent == InitStore /\ [][NextConcurrent]_vars

(***************************************************************************)
(* MemoryMonitor: the bookkeeping of failed requests, retry counters and   *)
(* cached responses, and the three cleanups checkMemoryUsage triggers.     *)
(* The Maps failedRequests and responseCache are sequences of entries in   *)
(* insertion order, retryCounters a function from request id to count;     *)
(* request ids and cache keys are numbers (0 the id a caller reuses,       *)
(* 1, 2, ... the fresh ids oauth-0, oauth-1, ...).  trackLog records the   *)
(* calls made and what trackFailedRequest returned.                        *)
(***************************************************************************)
MaxTracks == 7
MaxCleanups == 2
MaxKeys == 260

MaxRetries == 5
CacheLimit == 200
CacheEvict == 50
LightCacheLimit == 100
LightCacheKeep == 50
AggressiveCacheKeep == 20
FiveMinutesMs == 5 * MsPerMinute

\* Map.get(k) || 0
CounterOf(counters, requestId) ==
    IF requestId \in DOMAIN counters THEN counters[requestId] ELSE 0

\* Map.set(k, v) on a function
WithCounter(counters, requestId, n) ==
    [k \in DOMAIN counters \cup {requestId} |-> IF k = requestId THEN n ELSE counters[k]]

\* Map.delete(k) on a function
WithoutCounter(counters, requestId) ==
    [k \in DOMAIN counters \ {requestId} |-> counters[k]]

\* Map.set(k, v) on entries in insertion order: an existing key keeps its place
SetEntry(entries, e) ==
    IF \E i \in 1..Len(entries) : entries[i].key = e.key
    THEN [i \in 1..Len(entries) |-> IF entries[i].key = e.key THEN e ELSE entries[i]]
    ELSE Append(entries, e)

\* retryCount > MAX_RETRIES
ExceedsMaxRetries(retryCount) == retryCount > MaxRetries

\* what trackFailedRequest(requestId, request) returns
TrackReturns(counters, requestId) ==
    ~ExceedsMaxRetries(CounterOf(counters, requestId) + 1)

TrackFailedRequest(requestId) ==
    /\ Len(trackLog) < MaxTracks
    /\ LET retryCount == CounterOf(retryCounters, requestId) + 1
       IN  IF ExceedsMaxRetries(retryCount)
           THEN /\ retryCounters' = WithoutCounter(retryCounters, requestId)
                /\ UNCHANGED failedRequests
           ELSE /\ retryCounters' = WithCounter(retryCounters, requestId, retryCount)
                /\ failedRequests' = SetEntry(failedRequests,
                                              [key |-> requestId, timestamp |-> now,
                                               retryCount |-> retryCount])
    /\ trackLog' = Append(trackLog, [kind |-> "track", id |-> requestId,
                                     returned |-> TrackReturns(retryCounters, requestId)])
    /\ UNCHANGED <<now, config, sessionDir, backupDir, result, snapLog, ioFailed, calls,
                   writes, responseCache>>
    /\ UNCHANGED resumeVars
    /\ UNCHANGED <<made, dirVars>>

\* the size test with > in place of >=
CacheIsFull_Late(entries) == Len(entries) > CacheLimit

\* this.responseCache.size >= 200
CacheIsFull(entries) == Len(entries) >= CacheLimit

\* the cache once cacheResponse has made room: without its oldest 50 entries
\* if it was full
MadeRoom(entries) ==
    IF CacheIsFull(entries)
    THEN SubSeq(entries, CacheEvict + 1, Len(entries))
    ELSE entries

CacheResponse(key) ==
    /\ responseCache' = SetEntry(MadeRoom(responseCache), [key |-> key, timestamp |-> now])
    /\ UNCHANGED <<now, config, sessionDir, backupDir, result, snapLog, ioFailed, calls,
                   writes, failedRequests, retryCounters, trackLog>>
    /\ UNCHANGED resumeVars
    /\ UNCHANGED <<made, dirVars>>

IsCleanup(e) == e.kind # "track"

NotTooOld(e) == ~(e.timestamp < now - FiveMinutesMs)

\* entries.slice(-n)
LastEntries(entries, n) ==
    IF Len(entries) > n THEN SubSeq(entries, Len(entries) - n + 1, Len(entries)) ELSE entries

\* performLightCleanup: drops the failed requests older than 5 minutes and,
\* of a cache of more than 100 entries, all but the newest 50
PerformLightCleanup ==
    /\ Len(SelectSeq(trackLog, IsCleanup)) < MaxCleanups
    /\ failedRequests' = SelectSeq(failedRequests, NotTooOld)
    /\ responseCache' = IF Len(responseCache) > LightCacheLimit
                        THEN LastEntries(responseCache, LightCacheKeep)
                        ELSE responseCache
    /\ trackLog' = Append(trackLog, [kind |-> "light"])
    /\ UNCHANGED <<now, config, sessionDir, backupDir, result, snapLog, ioFailed, calls,
                   writes, retryCounters>>
    /\ UNCHANGED resumeVars
    /\ UNCHANGED <<made, dirVars>>

\* performAggressiveCleanup: clears the failed requests and the retry
\* counters, keeps the newest 20 entries of the cache
PerformAggressiveCleanup ==
    /\ Len(SelectSeq(trackLog, IsCleanup)) < MaxCleanups
    /\ failedRequests' = <<>>
    /\ responseCache' = IF Len(responseCache) > AggressiveCacheKeep
                        THEN LastEntries(responseCache, AggressiveCacheKeep)
                        ELSE responseCache
    /\ retryCounters' = <<>>
    /\ trackLog' = Append(trackLog, [kind |-> "aggressive"])
    /\ UNCHANGED <<now, config, sessionDir, backupDir, result, snapLog, ioFailed, calls,
                   writes>>
    /\ UNCHANGED resumeVars
    /\ UNCHANGED <<made, dirVars>>

\* performEmergencyCleanup: clears the three Maps
PerformEmergencyCleanup ==
    /\ Len(SelectSeq(trackLog, IsCleanup)) < MaxCleanups
    /\ failedRequests' = <<>>
    /\ responseCache' = <<>>
    /\ retryCounters' = <<>>
    /\ trackLog' = Append(trackLog, [kind |-> "emergency"])
    /\ UNCHANGED <<now, config, sessionDir, backupDir, result, snapLog, ioFailed, calls,
                   writes>>
    /\ UNCHANGED resumeVars
    /\ UNCHANGED <<made, dirVars>>

(***************************************************************************)
(* SpecRetry: trackFailedRequest calls, for the id a caller reuses or for  *)
(* a fresh id per attempt, and the cleanups between them.                  *)
(***************************************************************************)
IsTrack(e) == e.kind = "track"

\* the id of the next attempt of a loop that names its attempts oauth-0, ...
FreshId == Len(SelectSeq(trackLog, IsTrack)) + 1

\* a cache of n entries, as n cacheResponse calls with new keys leave it
FilledCache(n, t) == [i \in 1..n |-> [key |-> i, timestamp |-> t]]

\* the monitor just constructed, or after a day of use: a request that failed
\* once 6 minutes ago and a cache of 101 responses
InitRetry ==
    /\ IdleInit
    /\ config = DefaultConfig
    /\ sessionDir = EmptyDir
    /\ backupDir = EmptyDir

InitRetryUsed ==
    /\ ManagerInit
    /\ HandlerInit
    /\ config = DefaultConfig
    /\ sessionDir = EmptyDir
    /\ backupDir = EmptyDir
    /\ failedRequests = <<[key |-> 0, timestamp |-> T0 - FiveMinutesMs - MsPerMinute,
                           retryCount |-> 1]>>
    /\ retryCounters = WithCounter(<<>>, 0, 1)
    /\ responseCache = FilledCache(LightCacheLimit + 1, T0 - MsPerMinute)
    /\ trackLog = <<[kind |-> "track", id |-> 0, returned |-> TRUE]>>

NextRetry ==
    \/ \E requestId \in {0, FreshId} : TrackFailedRequest(requestId)
    \/ PerformLightCleanup
    \/ PerformAggressiveCleanup
    \/ PerformEmergencyCleanup

SpecRetry == (InitRetry \/ InitRetryUsed) /\ [][NextRetry]_vars

(***************************************************************************)
(* SpecCache: cacheResponse calls with new keys and with keys used before. *)
(***************************************************************************)
CachedKeys == {responseCache[i].key : i \in 1..Len(responseCache)}

\* the key after the largest one in the cache
NewKey == IF responseCache = <<>> THEN 1
          ELSE 1 + CHOOSE k \in CachedKeys : \A j \in CachedKeys : j <= k

\* the keys of a call: a new one, or the oldest or the newest one cached
CacheKeyChoices ==
    {k \in {NewKey} : k <= MaxKeys} \cup
    (IF responseCache = <<>> THEN {}
     ELSE {responseCache[1].key, responseCache[Len(responseCache)].key})

NextCache == \E key \in CacheKeyChoices : CacheResponse(key)

SpecCache == InitRetry /\ [][NextCache]_vars

(***************************************************************************)
(* DirectoryOperationHandler: processDirectoryListing and its retries.     *)
(* A text is a sequence of parts (the empty sequence: the field is         *)
(* missing); the delay of a retry is not modelled, only that the call      *)
(* waits there.                                                            *)
(***************************************************************************)
MaxAttempts == 3

\* the paths of the tests: a directory, the empty string, a path that does
\* not exist
Paths == {"/test/path", "", "/invalid/path"}

InvalidPaths == {"", "/invalid/path"}

\* the values of Math.random(), in hundredths
RandomDraws == {5, 20, 50}

Response(kind, message, content, files, directories, error) ==
    [kind |-> kind, assistant_message |-> message, content |-> content,
     files |-> files, directories |-> directories, error |-> error]

EmptyResponse == Response("response", <<>>, <<>>, <<>>, <<>>, "")

\* mockApiCall(path): the second branch is never taken, random < 0.1 being
\* tested after random < 0.3
MockApiCall(path, random) ==
    IF random < 30
    THEN Response("response", <<>>, <<"Files in", path>>, <<>>, <<>>, "")
    ELSE IF random < 10
    THEN EmptyResponse
    ELSE Response("response", <<"Here are the contents of", path>>,
                  <<"Directory listing for", path>>,
                  <<"file1.txt", "file2.js">>, <<"subdir1", "subdir2">>, "")

\* what the API the mock stands for may answer: what the mock answers, or
\* the empty response its dead branch describes
ApiResponses(path) == {MockApiCall(path, r) : r \in RandomDraws} \cup {EmptyResponse}

\* !response.assistant_message && !response.content
LacksMessage(response) == response.assistant_message = <<>> /\ response.content = <<>>

\* executeDirectoryOperation: whether it throws (handleBedrockHaikuResponse on
\* an empty response) and what it returns otherwise
ExecutionThrows(response, haiku) == haiku /\ LacksMessage(response)

ExecuteDirectoryOperation(response, haiku) ==
    IF haiku /\ response.assistant_message = <<>> /\ response.content # <<>>
    THEN [response EXCEPT !.assistant_message = response.content]
    ELSE response

ValidateResponse(response) ==
    \/ response.assistant_message # <<>>
    \/ response.content # <<>>
    \/ response.files # <<>>
    \/ response.directories # <<>>

\* the error of a failed attempt ("" when the attempt succeeds)
AttemptError(response, haiku) ==
    IF ExecutionThrows(response, haiku) THEN "Bedrock Haiku returned empty response"
    ELSE IF ~ValidateResponse(ExecuteDirectoryOperation(response, haiku))
    THEN "Invalid or malformed response structure"
    ELSE IF LacksMessage(ExecuteDirectoryOperation(response, haiku))
    THEN "Missing assistant response - no content found"
    ELSE ""

CreateFallbackResponse(path, error) ==
    Response("fallback", <<"Unable to process directory", path, error>>,
             <<"Directory listing failed for", path>>, <<>>, <<>>, error)

\* attempt++ that leaves the counter where it is
NextAttempt_Stuck(n) == n

\* attempt++
NextAttempt(n) == n + 1

\* processDirectoryListing(path, modelInfo) is called
ProcessDirectoryListing(path, haiku) ==
    /\ dirCall.pc = "idle"
    /\ dirCall' = [pc |-> "running", path |-> path, haiku |-> haiku,
                   peak |-> retryAttempts]
    /\ attempt' = 0
    /\ executions' = 0
    /\ dirResult' = NoResponse
    /\ UNCHANGED <<now, config, sessionDir, backupDir, result, snapLog, ioFailed, calls,
                   writes, made, retryAttempts>>
    /\ UNCHANGED resumeVars
    /\ UNCHANGED monitorVars

\* one turn of the while loop: the operation is executed and its response
\* checked; the call returns the response, or counts the failure and returns
\* the fallback or waits; after the loop it returns the fallback
Attempt(response) ==
    /\ dirCall.pc = "running"
    /\ IF attempt < retryAttempts
       THEN /\ executions' = executions + 1
            /\ IF AttemptError(response, dirCall.haiku) = ""
               THEN /\ dirResult' = ExecuteDirectoryOperation(response, dirCall.haiku)
                    /\ dirCall' = [dirCall EXCEPT !.pc = "idle"]
                    /\ UNCHANGED attempt
               ELSE /\ attempt' = NextAttempt(attempt)
                    /\ IF NextAttempt(attempt) >= retryAttempts
                       THEN /\ dirResult' = CreateFallbackResponse(
                                                dirCall.path,
                                                AttemptError(response, dirCall.haiku))
                            /\ dirCall' = [dirCall EXCEPT !.pc = "idle"]
                       ELSE /\ dirCall' = [dirCall EXCEPT !.pc = "sleeping"]
                            /\ UNCHANGED dirResult
       ELSE /\ dirResult' = CreateFallbackResponse(dirCall.path,
                                                   "Maximum retry attempts exceeded")
            /\ dirCall' = [dirCall EXCEPT !.pc = "idle"]
            /\ UNCHANGED <<attempt, executions>>
    /\ UNCHANGED <<now, config, sessionDir, backupDir, result, snapLog, ioFailed, calls,
                   writes, made, retryAttempts>>
    /\ UNCHANGED resumeVars
    /\ UNCHANGED monitorVars

\* the sleep of the backoff ends
Wakes ==
    /\ dirCall.pc = "sleeping"
    /\ dirCall' = [dirCall EXCEPT !.pc = "running"]
    /\ UNCHANGED <<now, config, sessionDir, backupDir, result, snapLog, ioFailed, calls,
                   writes, made, retryAttempts, attempt, executions, dirResult>>
    /\ UNCHANGED resumeVars
    /\ UNCHANGED monitorVars

\* setRetryConfig(attempts, delayMs), between calls or while a call waits;
\* peak: the largest retryAttempts in force during the call
SetRetryConfig(attempts) ==
    /\ retryAttempts' = IF attempts > 1 THEN attempts ELSE 1
    /\ dirCall' = IF dirCall.pc # "idle" /\ retryAttempts' > dirCall.peak
                  THEN [dirCall EXCEPT !.peak = retryAttempts']
                  ELSE dirCall
    /\ UNCHANGED <<now, config, sessionDir, backupDir, result, snapLog, ioFailed, calls,
                   writes, made, attempt, executions, dirResult>>
    /\ UNCHANGED resumeVars
    /\ UNCHANGED monitorVars

InitDirectory ==
    /\ IdleInit
    /\ config = DefaultConfig
    /\ sessionDir = EmptyDir
    /\ backupDir = EmptyDir

NextDirectory ==
    \/ \E path \in Paths, haiku \in BOOLEAN : ProcessDirectoryListing(path, haiku)
    \/ \E response \in ApiResponses(dirCall.path) : Attempt(response)
    \/ Wakes
    \/ \E attempts \in 0..MaxAttempts : SetRetryConfig(attempts)

SpecDirectory == InitDirectory /\ [][NextDirectory]_vars

(***************************************************************************)
(* Claims about the store.                                                 *)
(***************************************************************************)
\* the backup files written for session id, and the names its snapshots wrote
BackupsOf(id) == {f \in DOMAIN backupDir : OwnerOf(f) = id}

IsSnapshotOfA(name) == OwnerOf(name) = IdA

IsSnapshotOfB(name) == OwnerOf(name) = IdB

SnapshotsOf(id) ==
    IF id = IdA THEN SelectSeq(snapLog, IsSnapshotOfA) ELSE SelectSeq(snapLog, IsSnapshotOfB)

LastN(q, n) == SubSeq(q, Len(q) - n + 1, Len(q))

\* C7: after K > maxBackups snapshots of one session id, with no I/O failure,
\* exactly maxBackups backups of that id remain and they are the ones the
\* last maxBackups snapshots created.
C7_RetentionBound ==
    \A id \in Ids :
        (~ioFailed /\ Len(SnapshotsOf(id)) > config.maxBackups) =>
            /\ Cardinality(BackupsOf(id)) = config.maxBackups
            /\ BackupsOf(id) = Range(LastN(SnapshotsOf(id), config.maxBackups))

\* C8: after every successful saveSession the persisted metadata.totalMessages
\* equals the number of persisted messages.
C8_SavedTotalMatches ==
    (result.op = "save" /\ result.kind = "ok") =>
        LET lines == sessionDir[result.session.metadata.sessionId]
        IN  ParsedMetadata(lines)[1].totalMessages = Len(ParsedMessages(lines))

\* C15: saveSession writes the primary record atomically: whatever becomes of
\* the write, the record of the session afterwards is entirely the old content
\* (the directory is as it was) or entirely the new content.
C15_SaveIsAtomic ==
    [][(result'.op = "save" /\ calls' = calls + 1) =>
           \/ sessionDir' = sessionDir
           \/ sessionDir' = WithFile(sessionDir, result'.session.metadata.sessionId,
                                     SerializeSession(result'.session))]_vars

\* the files getSessionBackups lists for session id
ListedBackups(id) == Range(GetSessionBackups(backupDir, id))

\* C17: a failure to write the snapshot, or to prune the old backups, never
\* aborts saveSession: the record is written and the call raises no error.
C17_SnapshotFailureDoesNotAbortSave ==
    (result.op = "save" /\ result.fault # NoFault /\ result.fault.outcome = "ok") =>
        /\ result.kind = "ok"
        /\ result.session.metadata.sessionId \in DOMAIN sessionDir
        /\ LET lines == sessionDir[result.session.metadata.sessionId]
           IN  /\ ParsedMetadata(lines) = <<result.session.metadata>>
               /\ ParsedMessages(lines) = result.session.messages

\* a saveSession that returned although the pruning of its snapshot failed at
\* the first unlink, leaving more than maxBackups backups
C17_Witness ==
    /\ result.op = "save"
    /\ result.kind = "ok"
    /\ result.fault.unlinkFailAt = 1
    /\ Cardinality(ListedBackups(result.session.metadata.sessionId)) > config.maxBackups
    /\ result.session.metadata.sessionId \in DOMAIN sessionDir

\* whether `lines` is the complete record one saveSession call wrote
WholeRecord(lines) ==
    /\ lines # <<>>
    /\ lines[1].kind = "metadata"
    /\ \E s \in ConcurrentInputs :
           lines = SerializeSession(SavedSession(s, lines[1].data.lastUpdated))

\* C25: when saveSession calls on one session id interleave, then once all of
\* them have returned the primary record is the complete record one of the
\* calls wrote, never a mix of two and never a partial record.
C25_InterleavedSavesLeaveOneWholeRecord ==
    (writes = {} /\ result.op = "save") =>
        WholeRecord(sessionDir[result.session.metadata.sessionId])

(***************************************************************************)
(* Claims about deleteSession (SpecRegistry).  In a state with             *)
(* result.op = "delete" the store is as the call left it.                  *)
(***************************************************************************)
\* the ids of the sessions a listing names
ListedIds(metas) == {metas[i].sessionId : i \in 1..Len(metas)}

\* C13: after deleteSession(id) (no file operation failing), neither the
\* primary record nor a backup of id remains and a following listSessions does
\* not include id, whether or not the primary record existed at the call.
C13_DeleteRemovesRecordAndBackups ==
    (result.op = "delete" /\ result.fault = NoFault) =>
        /\ result.id \notin DOMAIN sessionDir
        /\ BackupsOf(result.id) = {}
        /\ \A files \in Orders(DOMAIN sessionDir) :
               result.id \notin ListedIds(ListedSessions(sessionDir, files, now, TRUE, {}))

\* C14: deleteSession(id) returns true exactly when the primary record of id
\* existed at the call (and its unlink did not fail), also when the deletion
\* of one of its backups fails.
C14_DeleteReturnsWhetherPrimaryExisted ==
    (result.op = "delete" /\ result.fault.outcome = "ok") =>
        (result.returned <=> result.existed)

\* the sessions of the store whose record loadSession can load during the
\* listing the result describes
Loadable == {id \in DOMAIN sessionDir : id \notin result.unreadable}

\* C23: listSessions (the directory being enumerable) returns the metadata, and
\* nothing but the metadata, of exactly the sessions whose record loads, the
\* larger lastUpdated first; a session whose load fails is skipped.
C23_ListingIsLoadableMetadataNewestFirst ==
    (result.op = "list" /\ result.readdirOk) =>
        LET listed == result.sessions
        IN  /\ result.kind = "ok"
            /\ Len(listed) = Cardinality(Loadable)
            /\ \A id \in Loadable :
                   \E i \in 1..Len(listed) :
                       listed[i] = LoadSession(sessionDir, id, result.at, TRUE).session.metadata
            /\ \A i \in 1..Len(listed) : "messages" \notin DOMAIN listed[i]
            /\ \A i, j \in 1..Len(listed) :
                   i < j => listed[i].lastUpdated >= listed[j].lastUpdated

\* a listing of two sessions that readdir handed out the older one first
C23_Witness ==
    /\ result.op = "list"
    /\ result.readdirOk
    /\ Len(result.sessions) = 2
    /\ result.sessions[1].lastUpdated > result.sessions[2].lastUpdated
    /\ result.files[1] = result.sessions[2].sessionId

(***************************************************************************)
(* Claims about loadSession (SpecLoad).  In the state after the load        *)
(* (pc = "repairing") cur is what it returned and atCall.sessionDir[rid]   *)
(* the record it read.                                                     *)
(***************************************************************************)
\* the positions of the well-formed message lines of a record, and the rank
\* of such a position among them
MessageIndices(lines) == {i \in 1..Len(lines) : lines[i].kind = "message"}

Rank(lines, i) == Cardinality({j \in MessageIndices(lines) : j <= i})

\* C24: loadSession returns every well-formed message line of the record, in
\* file order, whatever malformed line stands among them, and a malformed line
\* never makes the load fail (it fails only for a missing or unreadable file).
C24_MalformedLineLosesNothing ==
    /\ pc = "failed" => (rid \notin DOMAIN atCall.sessionDir \/ ioFailed)
    /\ pc = "repairing" =>
           LET lines == atCall.sessionDir[rid]
           IN  /\ Len(cur.messages) = Cardinality(MessageIndices(lines))
               /\ \A i \in MessageIndices(lines) :
                      cur.messages[Rank(lines, i)] = lines[i].data

\* a load of a record with a malformed line between two different message
\* lines, both of which it returned
C24_Witness ==
    /\ pc = "repairing"
    /\ Len(cur.messages) = 2
    /\ cur.messages[1] # cur.messages[2]
    /\ \E i \in 2..(Len(atCall.sessionDir[rid]) - 1) :
           /\ atCall.sessionDir[rid][i].kind = "malformed"
           /\ atCall.sessionDir[rid][i - 1].kind = "message"
           /\ atCall.sessionDir[rid][i + 1].kind = "message"

(***************************************************************************)
(* Claims about the Validator/Repairer (SpecRepair).  In the state after   *)
(* the pass (pc = "authenticating") cur is its result and repairLog holds  *)
(* its input and the instant Date.now() gave it.                           *)
(***************************************************************************)
AfterRepair == pc = "authenticating" /\ repairLog.ran

\* the indices of the messages whose timestamp the pass replaces
Untimed(messages) == {i \in 1..Len(messages) : messages[i].timestamp <= 0}

\* C9, as stated: after validateAndRepairSession, metadata.sessionId is
\* non-empty and the sessionId of every message equals it.
C9_EveryMessageIdEqualsMetadata ==
    AfterRepair =>
        /\ cur.metadata.sessionId # <<>>
        /\ \A i \in 1..Len(cur.messages) :
               cur.messages[i].sessionId = cur.metadata.sessionId

\* C9, amended: after validateAndRepairSession, metadata.sessionId is non-empty
\* and every message has a non-empty sessionId: a message that arrived without
\* one carries metadata.sessionId, a message that arrived with one keeps it,
\* also when it differs from metadata.sessionId.
C9_MissingMessageIdsBackfilled ==
    AfterRepair =>
        /\ cur.metadata.sessionId # <<>>
        /\ Len(cur.messages) = Len(repairLog.input.messages)
        /\ \A i \in 1..Len(cur.messages) :
               /\ cur.messages[i].sessionId # <<>>
               /\ cur.messages[i].sessionId =
                      IF repairLog.input.messages[i].sessionId = <<>>
                      THEN cur.metadata.sessionId
                      ELSE repairLog.input.messages[i].sessionId

\* a pass over a session with a message lacking a sessionId and a message
\* carrying the id of another session
C9_Witness ==
    /\ AfterRepair
    /\ \E i, j \in 1..Len(cur.messages) :
           /\ repairLog.input.messages[i].sessionId = <<>>
           /\ repairLog.input.messages[j].sessionId # <<>>
           /\ cur.messages[j].sessionId # cur.metadata.sessionId

C11_LastUpdatedNotBeforeCreated ==
    AfterRepair => cur.metadata.lastUpdated >= cur.metadata.createdAt

\* the state after a second pass: cur is its result, repairLog.input the
\* result of the first pass
AfterSecondPass == pc = "revalidated"

\* C12, as stated: a second pass returns a session identical to the result of
\* the first in every field of metadata (lastUpdated included) and in every
\* message, and flags no repair.
C12_SecondPassIdentical ==
    AfterSecondPass =>
        /\ cur = repairLog.input
        /\ ~Repaired(repairLog.input)

\* C12, amended: a second pass flags no repair, takes no snapshot, and returns
\* a session identical to the result of the first in every message and in
\* every field of metadata but lastUpdated, which is the instant of the
\* second pass.
C12_SecondPassOnlyBumpsLastUpdated ==
    AfterSecondPass =>
        /\ ~Repaired(repairLog.input)
        /\ cur.messages = repairLog.input.messages
        /\ cur.metadata = [repairLog.input.metadata EXCEPT !.lastUpdated = repairLog.at]
        /\ Len(snapLog) <= 1

\* a second pass, later than the first, over a session the first pass had
\* repaired (and snapshotted)
C12_Witness ==
    /\ AfterSecondPass
    /\ snapLog # <<>>
    /\ cur.metadata.lastUpdated > repairLog.input.metadata.lastUpdated

(***************************************************************************)
(* Claims about resumeSession (Spec).  In a state with pc = "done" the     *)
(* call has returned or thrown: result is what the caller got at instant   *)
(* result.at, atCall is the store the call started from.                   *)
(***************************************************************************)
Returned == pc = "done" /\ result.kind = "ok"

PrimaryLoadFailed ==
    origErr \in {"Session file not found", "Failed to load session"}

\* the backups written for session id that dir holds, newest first
OwnBackups(dir, id) == Reverse(SortAsc({f \in DOMAIN dir : OwnerOf(f) = id}))

IsPrefixOf(p, q) == Len(p) <= Len(q) /\ SubSeq(q, 1, Len(p)) = p

\* C1: when loading the primary record fails, resumeSession tries the backups
\* of that session from newest to oldest, returns the content of the first one
\* that parses and repairs without error, and reads no older backup after it.
C1_BackupCascade ==
    (pc = "done" /\ PrimaryLoadFailed) =>
        LET own == OwnBackups(atCall.backupDir, rid)
        IN  /\ IsPrefixOf(readLog, own)
            /\ ~ioFailed =>
                   \A i \in 1..Len(readLog) :
                       BackupLoads(atCall.backupDir[readLog[i]]) => i = Len(readLog)
            /\ result.kind = "ok" =>
                   /\ readLog # <<>>
                   /\ result.file = readLog[Len(readLog)]
                   /\ BackupLoads(atCall.backupDir[result.file])
                   /\ result.session.messages = atCall.backupDir[result.file].data.messages
            /\ (~ioFailed /\ result.kind = "error") => readLog = own

\* the primary record exists and none of its lines parses
PrimaryCorrupt(dir, id) ==
    /\ id \in DOMAIN dir
    /\ \A i \in 1..Len(dir[id]) : dir[id][i].kind = "malformed"

\* C2: if the primary record is corrupt (none of its lines parses) and one
\* valid backup with 2 messages exists, resumeSession returns the 2 messages
\* of that backup (no file operation failing).
C2_CorruptPrimaryFallsBack ==
    \A b \in DOMAIN atCall.backupDir :
        ( /\ pc = "done"
          /\ ~ioFailed
          /\ PrimaryCorrupt(atCall.sessionDir, rid)
          /\ OwnBackups(atCall.backupDir, rid) = <<b>>
          /\ BackupLoads(atCall.backupDir[b])
          /\ Len(atCall.backupDir[b].data.messages) = 2 ) =>
            /\ result.kind = "ok"
            /\ result.session.messages = atCall.backupDir[b].data.messages

\* C3: if the credential refresh fails, resume ends with an error at once: no
\* backup is read and no session from a backup is returned.
C3_AuthFailureTerminates ==
    (pc = "done" /\ origErr = "Authentication failed") =>
        /\ result.kind = "error"
        /\ readLog = <<>>

\* C4: ensureValidAuthentication is applied to a session recovered from a
\* backup before resumeSession returns it.
C4_BackupIsAuthenticated ==
    (Returned /\ result.via = "backup") =>
        /\ authLog.checked
        /\ authLog.on = "backup"

\* C5: a returned session with a credential expiry carries, when it is
\* returned, an expiry at least the lookahead window in the future.
C5_ReturnedCredentialOutlivesWindow ==
    (Returned /\ result.session.metadata.oauthTokenExpiry # 0) =>
        result.session.metadata.oauthTokenExpiry - result.at
            >= config.oauthRefreshThreshold * MsPerMinute

\* the lookahead window of the credential check made by the running resume
Window == authLog.threshold * MsPerMinute

\* C6, as stated: the refresh is called exactly once when the expiry is set and
\* expiry - now is less than the window, and zero times when expiry - now is
\* not less than the window (or equal to it) or the expiry is unset.
C6_RefreshOnlyBelowWindow ==
    (pc = "done" /\ authLog.checked) =>
        /\ (authLog.expiry # 0 /\ authLog.expiry - authLog.at < Window)
               => refreshCalls = 1
        /\ (authLog.expiry = 0 \/ authLog.expiry - authLog.at >= Window)
               => refreshCalls = 0

\* C6, amended: during one resumeSession the credential check is made at most
\* once, on the session loaded from the primary record; the refresh is called
\* exactly once when that session's expiry is set and expiry - now is at most
\* the window (equal to it included), and zero times when expiry - now exceeds
\* the window, when the expiry is unset, and when no check is made (the
\* primary record failed to load and the session comes from a backup).
C6_RefreshUpToWindow ==
    pc = "done" =>
        /\ authLog.checked => (authLog.on = "primary" /\ ~PrimaryLoadFailed)
        /\ refreshCalls =
               IF /\ authLog.checked
                  /\ authLog.expiry # 0
                  /\ authLog.expiry - authLog.at <= Window
               THEN 1 ELSE 0

\* a resume that checked a credential expiring exactly one window later, and
\* refreshed it
C6_Witness ==
    /\ pc = "done"
    /\ authLog.checked
    /\ authLog.expiry # 0
    /\ authLog.expiry - authLog.at = Window
    /\ refreshCalls = 1

\* C16: if the write of the primary record fails in the Persisting step, resume
\* does not cascade to backups: no backup is read and no session from a backup
\* is returned.
C16_SaveFailureDoesNotCascade ==
    (pc = "done" /\ origErr = "Session save failed") =>
        /\ readLog = <<>>
        /\ result.via # "backup"

\* the failure of the primary path of the finished call, told from what the
\* call left behind: no record at the call; a record that was not repaired
\* (its read failed); a session that Step 4 marked active (the save failed);
\* otherwise the credential refresh failed
PrimaryFailure ==
    IF rid \notin DOMAIN atCall.sessionDir THEN "Session file not found"
    ELSE IF ~repairLog.ran THEN "Failed to load session"
    ELSE IF cur.metadata.isActive THEN "Session save failed"
    ELSE "Authentication failed"

\* C18: when the primary path fails and no backup exists, or every backup fails
\* to load, resume raises SessionResumeError whose reason is the failure of
\* the primary path, not the failure of a backup attempt.
C18_ErrorCarriesOriginalFailure ==
    (pc = "done" /\ origErr # "" /\ result.via # "backup") =>
        /\ result.kind = "error"
        /\ queue = <<>>
        /\ result.reason = PrimaryFailure
        /\ \A i \in 1..Len(readLog) :
               readLog[i] \in DOMAIN backupDir /\ BackupLoads(backupDir[readLog[i]])
                   => ioFailed

\* a resume of a session without a record that tried a backup, found it
\* unusable, and raised the error of the missing record
C18_Witness ==
    /\ pc = "done"
    /\ result.kind = "error"
    /\ readLog # <<>>
    /\ ~ioFailed
    /\ result.reason = "Session file not found"

C20_PendingRefreshBecomesAuthFailure ==
    (pc = "refreshing") ~> (origErr = "Authentication failed")

\* C21: after resumeSession has applied repairs and written the repaired
\* session back (auto backup on, no file operation failing), a backup in the
\* store holds the messages of the session as they were before the repair.
C21_PreRepairCopyKept ==
    ( /\ Returned
      /\ result.via = "primary"
      /\ Repaired(repairLog.input)
      /\ config.enableAutoBackup
      /\ ~ioFailed ) =>
        \E b \in DOMAIN backupDir :
            /\ backupDir[b].kind = "session"
            /\ backupDir[b].data.messages = repairLog.input.messages

\* C22: a backup is immutable: from one step to the next a backup file that
\* stays in the store keeps its content (it only disappears, by pruning or by
\* deleteSession), also when two snapshots are taken in the same millisecond.
C22_BackupsImmutable ==
    [][\A b \in DOMAIN backupDir \cap DOMAIN backupDir' :
           backupDir'[b] = backupDir[b]]_vars

(***************************************************************************)
(* Claims about saving and resuming (SpecRoundTrip).                       *)
(***************************************************************************)
\* whether `lines` is the complete record of a saved session none of whose
\* messages carries a sessionId
SavedWithoutIds(lines) ==
    /\ lines # <<>>
    /\ lines[1].kind = "metadata"
    /\ \E s \in RoundTripInputs :
           lines = SerializeSession(SavedSession(s, lines[1].data.lastUpdated))

\* C26: when a session was saved with n messages none of which carries a
\* sessionId, a following resumeSession that reads that record returns n
\* messages each carrying the session's id and metadata.totalMessages = n; it
\* fails only when a file operation or the token refresh does.
C26_ResumeRepairsSavedSession ==
    (rid \in DOMAIN atCall.sessionDir /\ SavedWithoutIds(atCall.sessionDir[rid])) =>
        LET n == Len(atCall.sessionDir[rid]) - 1
        IN  /\ (Returned /\ result.via = "primary") =>
                   /\ Len(result.session.messages) = n
                   /\ \A i \in 1..n : result.session.messages[i].sessionId = rid
                   /\ result.session.metadata.totalMessages = n
            /\ pc = "failed" => (ioFailed \/ origErr = "Authentication failed")

\* a resumeSession that returned a session saved with two or more messages
\* without sessionId, no operation having failed
C26_Witness ==
    /\ Returned
    /\ result.via = "primary"
    /\ ~ioFailed
    /\ rid \in DOMAIN atCall.sessionDir
    /\ SavedWithoutIds(atCall.sessionDir[rid])
    /\ Len(atCall.sessionDir[rid]) >= 3
    /\ Len(result.session.messages) >= 2

(***************************************************************************)
(* Claims about the MemoryMonitor (SpecRetry, SpecCache).                  *)
(***************************************************************************)
NoCleanupYet == SelectSeq(trackLog, IsCleanup) = <<>>

\* which call for its request id the i-th entry of the log is
NthCall(i) ==
    Cardinality({j \in 1..i : trackLog[j].kind = "track" /\ trackLog[j].id = trackLog[i].id})

\* C27: in a sequence of trackFailedRequest calls with no cleanup in between,
\* the first 5 calls for a request id return true and every later call for
\* that id returns false.
C27_AtMostFiveRetriesPerId ==
    NoCleanupYet =>
        \A i \in 1..Len(trackLog) : trackLog[i].returned = (NthCall(i) <= MaxRetries)

\* C28: after any sequence of cacheResponse calls, with new keys or with keys
\* used before, the response cache holds at most 200 entries.
C28_CacheHoldsAtMostLimit == Len(responseCache) <= CacheLimit

\* a cache that is at its limit again after an eviction
C28_Witness ==
    /\ Len(responseCache) = CacheLimit
    /\ responseCache[1].key > CacheEvict

\* C29: after performLightCleanup has run the retry counters are empty,
\* whatever requests were tracked before.
C29_LightCleanupClearsRetryCounters ==
    (trackLog # <<>> /\ trackLog[Len(trackLog)].kind = "light") =>
        DOMAIN retryCounters = {}

\* a loop that has called trackFailedRequest under the fresh ids 1, 2, ... and
\* nothing else
FreshIdLoop ==
    \A i \in 1..Len(trackLog) : trackLog[i].kind = "track" /\ trackLog[i].id = i

\* C30: a retry loop that calls trackFailedRequest once per attempt, each
\* under a fresh request id, has received false after at most 6 calls.
C30_FreshIdLoopIsStopped ==
    (FreshIdLoop /\ Len(trackLog) >= MaxRetries + 1) =>
        \E i \in 1..(MaxRetries + 1) : ~trackLog[i].returned

(***************************************************************************)
(* Claims about the DirectoryOperationHandler (SpecDirectory).             *)
(***************************************************************************)
DirReturned == dirCall.pc = "idle" /\ dirResult.kind # "none"

\* C31: processDirectoryListing for an invalid path (the empty string or a
\* path that does not exist) returns the fallback response: a message
\* 'Unable to process directory' and empty lists of files and directories.
C31_InvalidPathGetsFallback ==
    (DirReturned /\ dirCall.path \in InvalidPaths) =>
        /\ dirResult.assistant_message # <<>>
        /\ dirResult.assistant_message[1] = "Unable to process directory"
        /\ dirResult.files = <<>>
        /\ dirResult.directories = <<>>

\* C35: processDirectoryListing executes the directory operation at most
\* retryAttempts times (the largest value in force during the call), returns
\* the first valid response or, every execution having failed, the fallback,
\* and what it returns has a non-empty assistant_message or content.
C35_BoundedRetriesThenFallback ==
    /\ executions <= dirCall.peak
    /\ DirReturned =>
           /\ ~LacksMessage(dirResult)
           /\ dirResult.kind = "response" => attempt = executions - 1
           /\ dirResult.kind = "fallback" => attempt = executions

\* a call that returned the fallback after retryAttempts failed executions,
\* the configuration being the default one
C35_Witness ==
    /\ DirReturned
    /\ dirResult.kind = "fallback"
    /\ dirCall.peak = DefaultRetryAttempts
    /\ retryAttempts = DefaultRetryAttempts
    /\ executions = DefaultRetryAttempts

(***************************************************************************)
(* Further claims about resumeSession and the Backup Manager (Spec).       *)
(***************************************************************************)
\* the creation time stamp in a backup's name, as the digits written there
StampOf(name) ==
    SubSeq(name, Len(name) - (TsWidth + Len(JsonSuffix)) + 1, Len(name) - Len(JsonSuffix))

\* the list getSessionBackups returned to attemptSessionRecovery, nothing of
\* it read yet
BackupsListed == pc = "recovering" /\ readLog = <<>> /\ ~ioFailed

\* C32: getSessionBackups(id) lists the backups of id most recent first: the
\* order of the list (by name) is the order of the creation times.
C32_ListedMostRecentFirst ==
    BackupsListed =>
        \A i, j \in 1..Len(queue) :
            i < j => ~LexLess(StampOf(queue[i]), StampOf(queue[j]))

\* C36: an operation on one session id never touches the backups of another
\* session: a deleteSession(id) leaves in place every backup that was
\* written for a different id, including an id that extends id with '-'.
C36_DeleteLeavesOtherSessionsBackups ==
    [][ (calls' = calls + 1 /\ result'.op = "delete") =>
            \A f \in DOMAIN backupDir :
                OwnerOf(f) # result'.id => f \in DOMAIN backupDir' ]_vars

\* C33: repairing never fails: for every session a successful loadSession
\* can produce, validateAndRepairSession completes without raising an error
\* (a resume whose load succeeded does not fail in the repair step).
C33_RepairNeverThrows ==
    repairLog.ran => ~(pc = "failed" /\ origErr = "TypeError")

(***************************************************************************)
(* Further claims about the Validator/Repairer (SpecRepair).               *)
(***************************************************************************)
\* the first pass changed a field other than lastUpdated
ChangedBeyondLastUpdated ==
    [cur EXCEPT !.metadata.lastUpdated = 0] #
        [repairLog.input EXCEPT !.metadata.lastUpdated = 0]

\* C34: with auto backup enabled (and no file operation failing),
\* validateAndRepairSession takes a snapshot exactly when the pass changed a
\* field other than lastUpdated, a corrected totalMessages included.
C34_SnapshotIffRepairApplied ==
    (AfterRepair /\ config.enableAutoBackup /\ ~ioFailed) =>
        (snapLog # <<>> <=> ChangedBeyondLastUpdated)

\* C37: every session returned by resumeSession(id) has metadata.sessionId
\* equal to id, and the call creates no record under another id.
C37_ReturnedSessionHasRequestedId ==
    Returned =>
        /\ result.session.metadata.sessionId = rid
        /\ \A id \in DOMAIN sessionDir : id \notin DOMAIN atCall.sessionDir => id = rid

\* C38: after resumeSession(id) returns a session, the primary record of id
\* exists and contains the returned messages, whichever path returned it.
C38_PrimaryRecordHoldsReturnedSession ==
    Returned =>
        /\ rid \in DOMAIN sessionDir
        /\ ParsedMessages(sessionDir[rid]) = result.session.messages

(***************************************************************************)
(* Claim about the start of the manager (SpecStartup).                     *)
(***************************************************************************)
\* C39: a saveSession issued after the constructor returned does not fail
\* for want of the session or backup directory: both directories exist
\* before the first file write of the call.
C39_DirectoriesReadyBeforeFirstWrite ==
    result.op = "save" =>
        /\ result.kind = "ok"
        /\ result.fault = NoFault

(***************************************************************************)
(* Claim about the record format (SpecRoundTrip).                          *)
(***************************************************************************)
\* the last operation that completed is a saveSession that succeeded, and
\* no other call is running
JustSaved == pc = "idle" /\ result.op = "save" /\ result.kind = "ok"

====
